---- MODULE Spec2Model ----
(***************************************************************************)
(* Ledger, billing and order-charge logic of the water-can delivery        *)
(* application: the daily update screen, the billing screen, the order     *)
(* form and the order list, with the server tables they read and write.    *)
(***************************************************************************)
EXTENDS Integers, Sequences, FiniteSets, TLC

VARIABLES
    \* ---- order form / order list (charge computation) ----
    order,            \* the order row the order list holds (Orders.tsx `order`)
    formData,         \* OrdersForm.tsx formData (quantity fields)
    currentPrices,    \* OrdersForm.tsx currentPrices (null until fetched)
    prices,           \* rows answered by GET /api/settings/prices
    shown,            \* figures each charge path last produced
    nEdits,           \* number of handleChange calls so far
    isEditing,        \* OrdersForm.tsx isEditing (the route carries an order id)
    errors,           \* OrdersForm.tsx errors: the fields holding a message
    formLoading,      \* OrdersForm.tsx loading
    generatingReceipt, \* form: OrdersForm.tsx flag; list: Orders.tsx order id
    receiptReqs,      \* receipt downloads awaiting their responses
    \* ---- server tables ----
    customersDb,      \* customers table: customer_id -> customer_type, can_qty
    dailyUpdates,     \* daily_updates table: set of ledger rows
    monthlyBills,     \* monthly_bills table: set of bill rows
    \* ---- daily update screen (DailyUpdate.tsx) ----
    selectedDate,
    updates,          \* Record<customer_id, DailyUpdateState>
    customers,        \* customers loaded by fetchInitialData
    previousDayHoldings,
    savingCustomerId,
    loading,
    error,
    loads,            \* fetchInitialData calls awaiting their responses
    saves,            \* handleSaveSingleUpdate calls awaiting a response
    shownDate,        \* date whose load last filled updates (0: none yet)
    entriesDate,      \* date whose stored rows last filled updates (0: none yet)
    seedUse,          \* per customer: prior holding last used for a first-ever entry
    lastWrite,        \* arguments of the latest ledger write
    nActs,            \* number of user actions on the screen so far
    \* ---- billing screen (Billing.tsx) ----
    selectedMonth,
    bills,            \* snapshots answered by GET /api/daily-updates/monthly-bills
    filterStatus,
    billsLoading,     \* Billing.tsx loading
    billsError,       \* Billing.tsx error
    isSavingBills,
    updatingStatusId,
    billFetches,      \* fetchMonthlyBills calls awaiting their response
    billPosts,        \* POSTs to /api/bills/save-monthly-bills awaiting a response
    saveReport,       \* what the latest "save all" told the user
    selectedBillForModal,
    ledgerViews,      \* openLedger calls awaiting their responses
    ledgerHTML,       \* figures of the ledger the modal shows
    billsMonth,       \* month whose fetch last filled bills (0: none yet)
    isModalOpen,
    isGeneratingBills,
    generation,       \* the batch of handleGenerateAllBills under way
    nBillActs,        \* number of actions on the billing data so far
    \* ---- orders API (server/routes/orders.routes.js) ----
    orders,           \* rows of the orders table
    nextId,           \* AUTO_INCREMENT counter of the orders table
    orderReqs,        \* requests whose handler is waiting for a query
    lastResp,         \* the response sent most recently
    writers,          \* per order id, the body of the request that last wrote it
    nReqs             \* number of requests received so far

chargeVars == <<order, formData, currentPrices, prices, shown, nEdits, isEditing,
                errors, formLoading, generatingReceipt, receiptReqs>>

dbVars == <<customersDb, dailyUpdates, monthlyBills>>

ledgerVars == <<selectedDate, updates, customers, previousDayHoldings,
                savingCustomerId, loading, error, loads, saves, shownDate, entriesDate,
                seedUse, lastWrite, nActs>>

billingVars == <<selectedMonth, bills, filterStatus, billsLoading, billsError,
                 isSavingBills, updatingStatusId, billFetches, billPosts,
                 saveReport, selectedBillForModal, ledgerViews, ledgerHTML,
                 billsMonth, isModalOpen, isGeneratingBills, generation,
                 nBillActs>>

orderVars == <<orders, nextId, orderReqs, lastResp, writers, nReqs>>

vars == <<order, formData, currentPrices, prices, shown, nEdits, isEditing,
          errors, formLoading, generatingReceipt, receiptReqs,
          customersDb, dailyUpdates, monthlyBills,
          selectedDate, updates, customers, previousDayHoldings,
          savingCustomerId, loading, error, loads, saves, shownDate, entriesDate,
          seedUse, lastWrite, nActs,
          selectedMonth, bills, filterStatus, billsLoading, billsError,
          isSavingBills, updatingStatusId, billFetches, billPosts,
          saveReport, selectedBillForModal, ledgerViews, ledgerHTML,
          billsMonth, isModalOpen, isGeneratingBills, generation, nBillActs,
          orders, nextId, orderReqs, lastResp, writers, nReqs>>

(***************************************************************************)
(* JavaScript values.  A value is a number, a string (sequence of          *)
(* characters), undefined, null or NaN.                                    *)
(***************************************************************************)
Num(n) == [k |-> "num", n |-> n, s |-> << >>]
Str(s) == [k |-> "str", n |-> 0, s |-> s]
Undef == [k |-> "undef", n |-> 0, s |-> << >>]
Null == [k |-> "null", n |-> 0, s |-> << >>]
NaN == [k |-> "nan", n |-> 0, s |-> << >>]

Digits == <<"0", "1", "2", "3", "4", "5", "6", "7", "8", "9">>

IsDigit(c) == \E i \in 1..10 : Digits[i] = c

DigitVal(c) == (CHOOSE i \in 1..10 : Digits[i] = c) - 1

\* value of a non-empty sequence of digits
RECURSIVE DigitsVal(_)
DigitsVal(s) ==
    IF s = << >> THEN 0
    ELSE 10 * DigitsVal(SubSeq(s, 1, Len(s) - 1)) + DigitVal(s[Len(s)])

\* longest prefix of s made of digits
RECURSIVE DigitPrefix(_)
DigitPrefix(s) ==
    IF s = << >> \/ ~IsDigit(Head(s)) THEN << >>
    ELSE <<Head(s)>> \o DigitPrefix(Tail(s))

\* decimal text of a natural number, and of an integer
RECURSIVE NatText(_)
NatText(n) ==
    IF n < 10 THEN <<Digits[n + 1]>>
    ELSE NatText(n \div 10) \o <<Digits[(n % 10) + 1]>>

IntText(n) == IF n < 0 THEN <<"-">> \o NatText(0 - n) ELSE NatText(n)

\* String(v)
ToText(v) ==
    CASE v.k = "num" -> IntText(v.n)
      [] v.k = "str" -> v.s
      [] v.k = "undef" -> <<"u", "n", "d", "e", "f", "i", "n", "e", "d">>
      [] v.k = "null" -> <<"n", "u", "l", "l">>
      [] OTHER -> <<"N", "a", "N">>

\* parseInt(text): optional sign, then the leading digits; NaN when there are none
ParseIntText(s) ==
    LET neg == s # << >> /\ Head(s) = "-"
        signed == s # << >> /\ (Head(s) = "-" \/ Head(s) = "+")
        body == IF signed THEN Tail(s) ELSE s
        ds == DigitPrefix(body)
    IN  IF ds = << >> THEN NaN
        ELSE Num(IF neg THEN 0 - DigitsVal(ds) ELSE DigitsVal(ds))

\* parseInt(v): the argument is first converted to a string
ParseInt(v) == ParseIntText(ToText(v))

\* Number(v) / the numeric conversion applied by * and -
ToNumber(v) ==
    CASE v.k = "num" -> v
      [] v.k = "null" -> Num(0)
      [] v.k = "str" ->
            LET neg == v.s # << >> /\ Head(v.s) = "-"
                body == IF neg THEN Tail(v.s) ELSE v.s
            IN  IF v.s = << >> THEN Num(0)
                ELSE IF body # << >> /\ DigitPrefix(body) = body
                     THEN Num(IF neg THEN 0 - DigitsVal(body) ELSE DigitsVal(body))
                     ELSE NaN
      [] OTHER -> NaN

Truthy(v) ==
    CASE v.k = "num" -> v.n # 0
      [] v.k = "str" -> v.s # << >>
      [] OTHER -> FALSE

\* a || b
JsOr(a, b) == IF Truthy(a) THEN a ELSE b

\* a ?? b
JsNullish(a, b) == IF a.k \in {"undef", "null"} THEN b ELSE a

\* a * b
JsMul(a, b) ==
    LET x == ToNumber(a)
        y == ToNumber(b)
    IN  IF x.k = "nan" \/ y.k = "nan" THEN NaN ELSE Num(x.n * y.n)

\* a - b
JsSub(a, b) ==
    LET x == ToNumber(a)
        y == ToNumber(b)
    IN  IF x.k = "nan" \/ y.k = "nan" THEN NaN ELSE Num(x.n - y.n)

\* a + b: concatenation as soon as one operand is a string
JsAdd(a, b) ==
    IF a.k = "str" \/ b.k = "str" THEN Str(ToText(a) \o ToText(b))
    ELSE LET x == ToNumber(a)
             y == ToNumber(b)
         IN  IF x.k = "nan" \/ y.k = "nan" THEN NaN ELSE Num(x.n + y.n)

\* Math.max(0, v)
JsMax0(v) ==
    LET x == ToNumber(v)
    IN  IF x.k = "nan" THEN NaN ELSE Num(IF x.n > 0 THEN x.n ELSE 0)

\* a > 0
JsGtZero(a) ==
    LET x == ToNumber(a)
    IN  x.k = "num" /\ x.n > 0

(***************************************************************************)
(* Customers, dates and the tables of the server.                          *)
(***************************************************************************)
Customers == {"c1", "c2"}

CustomerTypes == {"shop", "monthly", "order"}

\* customer types with a standing daily allotment
RecurringTypes == {"shop", "monthly"}

\* last day a ledger entry can be entered for (the date input's max, today);
\* days are numbered 1..MaxDate and day 0 precedes the first of them
MaxDate == 2

Dates == 1..MaxDate

\* getPreviousDay
getPreviousDay(d) == d - 1

\* customers tables a behaviour can run against
CustomerTable(t, q) ==
    [c \in Customers |->
        IF c = "c1" THEN [customer_type |-> "monthly", can_qty |-> Num(2)]
        ELSE [customer_type |-> t, can_qty |-> q]]

CustomerTables == {CustomerTable("order", q) : q \in {Null, Num(1)}}

NoId == "none"

\* a row of the monthly_bills table
BillRow(c, m, paid, sent, amount, cans, days) ==
    [customer_id |-> c, bill_month |-> m, paid_status |-> paid, sent_status |-> sent,
     bill_amount |-> amount, total_cans |-> cans, delivery_days |-> days]

\* state of the daily update screen before it is mounted
IdleLedger ==
    /\ selectedDate = MaxDate
    /\ updates = [c \in Customers |-> Undef]
    /\ customers = {}
    /\ previousDayHoldings = [c \in Customers |-> Undef]
    /\ savingCustomerId = NoId
    /\ loading = TRUE
    /\ error = FALSE
    /\ loads = {}
    /\ saves = {}
    /\ shownDate = 0
    /\ entriesDate = 0
    /\ seedUse = [c \in Customers |-> Undef]
    /\ lastWrite = Undef
    /\ nActs = 0

\* month of the last ledger day (the month the billing screen opens on)
ThisMonth == 1

\* last month the month input is taken to
MaxMonth == 2

Months == 1..MaxMonth

\* calendar month of a ledger day: the ledger's days all fall in one month
MonthOf(d) == IF d \in Dates THEN ThisMonth ELSE ThisMonth - 1

NoReport == [kind |-> "none", sent |-> {}, failed |-> {}, reported |-> {}]

\* no batch of bills is being generated
NoBatch ==
    [pc |-> "idle", bills |-> {}, jobs |-> {}, zip |-> {},
     toasts |-> [c \in Customers |-> "none"], report |-> "none", archive |-> {}]

NoFigures == [computed |-> FALSE]

\* state of the billing screen before it is mounted
IdleBilling ==
    /\ selectedMonth = ThisMonth
    /\ bills = {}
    /\ filterStatus = "all"
    /\ billsLoading = TRUE
    /\ billsError = FALSE
    /\ isSavingBills = FALSE
    /\ updatingStatusId = NoId
    /\ billFetches = {}
    /\ billPosts = {}
    /\ saveReport = NoReport
    /\ selectedBillForModal = NoId
    /\ ledgerViews = {}
    /\ ledgerHTML = NoFigures
    /\ billsMonth = 0
    /\ isModalOpen = FALSE
    /\ isGeneratingBills = FALSE
    /\ generation = NoBatch
    /\ nBillActs = 0

IdleDb ==
    /\ customersDb = CustomerTable("order", Num(1))
    /\ dailyUpdates = {}
    /\ monthlyBills = {}

\* no response sent yet
NoResp == [n |-> 0, kind |-> "none", id |-> 0, status |-> 0, body |-> Undef,
           row |-> Undef, wrote |-> FALSE]

\* the orders API before any request, on an empty table
IdleOrders ==
    /\ orders = {}
    /\ nextId = 1
    /\ orderReqs = {}
    /\ lastResp = NoResp
    /\ writers = << >>
    /\ nReqs = 0

(***************************************************************************)
(* Order charge: the five places that compute it.                          *)
(***************************************************************************)
\* penalty per missing can
MissingCanPenalty == 500

NoSheet == [order_price |-> Undef, shop_price |-> Undef, monthly_price |-> Undef,
            present |-> FALSE]

Sheet(o, s, m) == [order_price |-> o, shop_price |-> s, monthly_price |-> m,
                   present |-> TRUE]

\* prices[0]
FirstPrice(rows) == IF rows = << >> THEN NoSheet ELSE rows[1]

NoCharge == [computed |-> FALSE]

Charge(sub, del, miss, pen, tot) ==
    [computed |-> TRUE, subtotal |-> sub, deliveryAmount |-> del,
     missingCans |-> miss, missingCanCharge |-> pen, totalAmount |-> tot]

\* utils/receipt.ts calculateReceiptData (faulty variant: missing cans not floored at 0)
calculateReceiptDataNoFloor(fd, cp) ==
    LET pricePerCan == cp.order_price
        subtotal == JsMul(fd.can_qty, pricePerCan)
        deliveryAmount == JsOr(ToNumber(fd.delivery_amount), Num(0))
        missingCans == JsSub(fd.can_qty, JsOr(fd.collected_qty, Num(0)))
        missingCanCharge == JsMul(missingCans, Num(MissingCanPenalty))
        totalAmount == JsAdd(JsAdd(subtotal, deliveryAmount), missingCanCharge)
    IN  Charge(subtotal, deliveryAmount, missingCans, missingCanCharge,
               totalAmount)

calculateReceiptData(fd, cp) ==
    LET pricePerCan == cp.order_price
        subtotal == JsMul(fd.can_qty, pricePerCan)
        deliveryAmount == JsOr(ToNumber(fd.delivery_amount), Num(0))
        missingCans == JsMax0(JsSub(fd.can_qty, JsOr(fd.collected_qty, Num(0))))
        missingCanCharge == JsMul(missingCans, Num(MissingCanPenalty))
        totalAmount == JsAdd(JsAdd(subtotal, deliveryAmount), missingCanCharge)
    IN  Charge(subtotal, deliveryAmount, missingCans, missingCanCharge,
               totalAmount)

\* Orders list, generateOrderReceipt: the figures of the download
generateOrderReceiptCharge(o, cp) ==
    LET pricePerCan == cp.order_price
        subtotal == JsMul(o.can_qty, pricePerCan)
        deliveryAmount == JsOr(ToNumber(o.delivery_amount), Num(0))
        missingCans == JsMax0(JsSub(o.can_qty, JsOr(o.collected_qty, Num(0))))
        missingCanCharge == JsMul(missingCans, Num(MissingCanPenalty))
        totalAmount == JsAdd(JsAdd(subtotal, deliveryAmount), missingCanCharge)
    IN  Charge(subtotal, deliveryAmount, missingCans, missingCanCharge,
               totalAmount)

\* Orders list, viewOrderReceipt: the figures of the preview
viewOrderReceiptCharge(o, cp) ==
    LET pricePerCan == cp.order_price
        subtotal == JsMul(o.can_qty, pricePerCan)
        deliveryAmount == JsOr(ToNumber(o.delivery_amount), Num(0))
        missingCans == JsMax0(JsSub(o.can_qty, JsOr(o.collected_qty, Num(0))))
        missingCanCharge == JsMul(missingCans, Num(MissingCanPenalty))
        totalAmount == JsAdd(JsAdd(subtotal, deliveryAmount), missingCanCharge)
    IN  Charge(subtotal, deliveryAmount, missingCans, missingCanCharge,
               totalAmount)

\* Order Summary sidebar (faulty variant: the penalty left out of the total)
SummaryChargeNoPenalty(fd, cp) ==
    LET price == JsOr(cp.order_price, Num(0))
        subtotal == JsMul(JsOr(fd.can_qty, Num(0)), price)
        deliveryAmount == JsOr(ToNumber(fd.delivery_amount), Num(0))
        missingCans == JsMax0(JsSub(JsOr(fd.can_qty, Num(0)),
                                    JsOr(fd.collected_qty, Num(0))))
        missingCanCharge == JsMul(missingCans, Num(MissingCanPenalty))
    IN  Charge(subtotal, deliveryAmount, missingCans, missingCanCharge,
               JsAdd(subtotal, deliveryAmount))

\* Order Summary sidebar: currentPrices?.order_price || 0, can_qty || 0
SummaryCharge(fd, cp) ==
    LET price == JsOr(cp.order_price, Num(0))
        subtotal == JsMul(JsOr(fd.can_qty, Num(0)), price)
        deliveryAmount == JsOr(ToNumber(fd.delivery_amount), Num(0))
        missingCans == JsMax0(JsSub(JsOr(fd.can_qty, Num(0)),
                                    JsOr(fd.collected_qty, Num(0))))
        missingCanCharge == JsMul(missingCans, Num(MissingCanPenalty))
    IN  Charge(subtotal, deliveryAmount, missingCans, missingCanCharge,
               JsAdd(JsAdd(subtotal, deliveryAmount), missingCanCharge))

\* JSON.stringify of a number: NaN is written as null
JsonValue(v) == IF v.k = "nan" THEN Null ELSE v

\* utils/receipt.ts generateReceiptHTML: what the returned document displays,
\* as a function from the displayed item to its value; the template is a
\* placeholder that names the customer and shows no figure of receiptData
generateReceiptHTML(fd, receiptData) == [customer_name |-> fd.customer_name]

\* Orders list, viewOrderReceipt: what receiptHTML displays.  The subtotal row
\* is always there, the delivery row only for a delivery_amount above 0, the
\* missing-can row and the total row only when cans are missing, the
\* collection table only for collected_qty > 0 or missing cans
viewOrderReceiptHTML(o, cp) ==
    LET c == viewOrderReceiptCharge(o, cp)
        always == {"customer_name", "can_qty", "pricePerCan", "subtotal"}
        delivery == IF Truthy(o.delivery_amount) /\ JsGtZero(o.delivery_amount)
                    THEN {"deliveryAmount"} ELSE {}
        missing == IF JsGtZero(c.missingCans)
                   THEN {"missingCans", "missingCanCharge", "totalAmount"} ELSE {}
        collection == IF o.collected_qty.k # "undef"
                         /\ (JsGtZero(o.collected_qty) \/ JsGtZero(c.missingCans))
                      THEN {"collected_qty", "missingCans"} ELSE {}
    IN  [item \in always \cup delivery \cup missing \cup collection |->
            CASE item = "customer_name" -> o.customer_name
              [] item = "can_qty" -> o.can_qty
              [] item = "collected_qty" -> o.collected_qty
              [] item = "pricePerCan" -> cp.order_price
              [] OTHER -> c[item]]

\* OrdersForm generateReceipt: the body posted to /generate-order-receipt is
\* JSON.stringify(receiptData), the return value of calculateReceiptData
generateReceiptBody(fd, cp, id) ==
    LET c == calculateReceiptData(fd, cp)
    IN  [pricePerCan |-> JsonValue(cp.order_price),
         subtotal |-> JsonValue(c.subtotal),
         deliveryAmount |-> JsonValue(c.deliveryAmount),
         missingCans |-> JsonValue(c.missingCans),
         missingCanCharge |-> JsonValue(c.missingCanCharge),
         totalAmount |-> JsonValue(c.totalAmount),
         orderId |-> id]

\* Orders list generateOrderReceipt: the body posted to /generate-order-receipt
\* is { order: { ...order, total_amount, price_per_can } }
generateOrderReceiptBody(o, cp) ==
    LET c == generateOrderReceiptCharge(o, cp)
    IN  [order |-> [total_amount |-> JsonValue(c.totalAmount),
                    price_per_can |-> JsonValue(cp.order_price)] @@ o]

\* quantity fields the form takes over from a fetched order (fetchOrder)
FetchOrderMap(o) ==
    [customer_name |-> o.customer_name,
     can_qty |-> o.can_qty,
     collected_qty |-> JsOr(o.collected_qty, Num(0)),
     delivery_amount |-> JsOr(o.delivery_amount, Num(0))]

\* useState default of formData
DefaultFormData ==
    [customer_name |-> Str(<< >>), can_qty |-> Num(0), collected_qty |-> Num(0),
     delivery_amount |-> Num(0)]

Paths == {"formPreview", "formDownload", "listPreview", "listDownload", "summary"}

FormPaths == {"formPreview", "formDownload", "summary"}

\* bound on the number of field edits in one behaviour
MaxEdits == 1

\* texts a number input can hand to handleChange
TypedTexts == {<< >>, <<"3">>}

QtyFields == {"can_qty", "collected_qty", "delivery_amount"}

\* order rows the orders table can hold (id, customer name and the quantity
\* columns)
OrderRows ==
    [id : {Num(1)},
     customer_name : {Str(<<"n">>)},
     can_qty : {Num(2), Num(10)},
     collected_qty : {Null, Num(7), Num(11)},
     delivery_amount : {Null, Num(50), Str(<<"5", "0">>)}]

PriceTables ==
    {<< >>,
     <<Sheet(Num(60), Num(40), Num(300))>>,
     <<Sheet(Str(<<"6", "0">>), Num(40), Num(300)), Sheet(Num(1), Num(1), Num(1))>>}

\* the form's figures belong to the state they were computed from: a change of
\* formData or currentPrices re-renders the form and drops them
Rerendered(sh) == [p \in Paths |-> IF p \in FormPaths THEN NoCharge ELSE sh[p]]

\* no receipt is being generated
NoReceipt == [form |-> FALSE, list |-> Null]

\* the form's flags after useState: no message, nothing under way
IdleForm ==
    /\ errors = {}
    /\ formLoading = FALSE
    /\ generatingReceipt = NoReceipt
    /\ receiptReqs = {}

InitCharge ==
    /\ order \in OrderRows
    /\ prices \in PriceTables
    /\ isEditing \in BOOLEAN
    /\ formData = DefaultFormData
    /\ currentPrices = NoSheet
    /\ shown = [p \in Paths |-> NoCharge]
    /\ nEdits = 0
    /\ IdleForm
    /\ IdleDb
    /\ IdleLedger
    /\ IdleBilling
    /\ IdleOrders

\* state of the order screens before they are opened
IdleCharge ==
    /\ order = [id |-> Num(1), customer_name |-> Str(<<"n">>), can_qty |-> Num(2),
                collected_qty |-> Null, delivery_amount |-> Null]
    /\ prices = <<Sheet(Num(60), Num(40), Num(300))>>
    /\ isEditing = FALSE
    /\ formData = DefaultFormData
    /\ currentPrices = NoSheet
    /\ shown = [p \in Paths |-> NoCharge]
    /\ nEdits = 0
    /\ IdleForm

\* OrdersForm fetchPrices: a failed response leaves currentPrices as it is
fetchPrices ==
    /\ \E ok \in BOOLEAN :
          currentPrices' = IF ok THEN FirstPrice(prices) ELSE currentPrices
    /\ shown' = IF currentPrices' = currentPrices THEN shown ELSE Rerendered(shown)
    /\ UNCHANGED <<order, formData, prices, nEdits, isEditing>>
    /\ UNCHANGED <<errors, formLoading, generatingReceipt, receiptReqs>>
    /\ UNCHANGED <<dbVars, ledgerVars, billingVars, orderVars>>

\* OrdersForm fetchOrder (edit mode only)
fetchOrder ==
    /\ isEditing
    /\ formData' = FetchOrderMap(order)
    /\ shown' = IF formData' = formData THEN shown ELSE Rerendered(shown)
    /\ UNCHANGED <<order, currentPrices, prices, nEdits, isEditing>>
    /\ UNCHANGED <<errors, formLoading, generatingReceipt, receiptReqs>>
    /\ UNCHANGED <<dbVars, ledgerVars, billingVars, orderVars>>

\* OrdersForm handleChange on one of the fields names, with one of the texts:
\* the field takes the typed text and loses its error message
handleChangeOf(names, texts, maxEdits) ==
    /\ nEdits < maxEdits
    /\ \E name \in names, text \in texts :
          /\ formData' = [formData EXCEPT ![name] = Str(text)]
          /\ errors' = errors \ {name}
    /\ nEdits' = nEdits + 1
    /\ shown' = IF formData' = formData THEN shown ELSE Rerendered(shown)
    /\ UNCHANGED <<order, currentPrices, prices, isEditing>>
    /\ UNCHANGED <<formLoading, generatingReceipt, receiptReqs>>
    /\ UNCHANGED <<dbVars, ledgerVars, billingVars, orderVars>>

\* OrdersForm handleChange on the quantity fields
handleChange == handleChangeOf(QtyFields, TypedTexts, MaxEdits)

\* OrdersForm viewReceipt
viewReceipt ==
    /\ isEditing
    /\ shown' = [shown EXCEPT !["formPreview"] =
                    IF currentPrices.present
                    THEN LET receiptData ==
                                 calculateReceiptData(formData, currentPrices)
                         IN  receiptData @@
                             [html |-> generateReceiptHTML(formData, receiptData)]
                    ELSE NoCharge]
    /\ UNCHANGED <<order, formData, currentPrices, prices, nEdits, isEditing>>
    /\ UNCHANGED <<errors, formLoading, generatingReceipt, receiptReqs>>
    /\ UNCHANGED <<dbVars, ledgerVars, billingVars, orderVars>>

\* OrdersForm generateReceipt
generateReceipt ==
    /\ isEditing
    /\ shown' = [shown EXCEPT !["formDownload"] =
                    IF currentPrices.present
                    THEN calculateReceiptData(formData, currentPrices) @@
                         [body |-> generateReceiptBody(formData, currentPrices,
                                                       order.id)]
                    ELSE NoCharge]
    /\ UNCHANGED <<order, formData, currentPrices, prices, nEdits, isEditing>>
    /\ UNCHANGED <<errors, formLoading, generatingReceipt, receiptReqs>>
    /\ UNCHANGED <<dbVars, ledgerVars, billingVars, orderVars>>

\* Orders list viewOrderReceipt: fetches the prices itself
viewOrderReceipt ==
    /\ \E ok \in BOOLEAN :
          shown' = [shown EXCEPT !["listPreview"] =
                      IF ok /\ FirstPrice(prices).present
                      THEN viewOrderReceiptCharge(order, FirstPrice(prices)) @@
                           [html |-> viewOrderReceiptHTML(order, FirstPrice(prices))]
                      ELSE NoCharge]
    /\ UNCHANGED <<order, formData, currentPrices, prices, nEdits, isEditing>>
    /\ UNCHANGED <<errors, formLoading, generatingReceipt, receiptReqs>>
    /\ UNCHANGED <<dbVars, ledgerVars, billingVars, orderVars>>

\* Orders list generateOrderReceipt: fetches the prices itself
generateOrderReceipt ==
    /\ \E ok \in BOOLEAN :
          shown' = [shown EXCEPT !["listDownload"] =
                      IF ok /\ FirstPrice(prices).present
                      THEN generateOrderReceiptCharge(order, FirstPrice(prices)) @@
                           [body |-> generateOrderReceiptBody(order,
                                                              FirstPrice(prices))]
                      ELSE NoCharge]
    /\ UNCHANGED <<order, formData, currentPrices, prices, nEdits, isEditing>>
    /\ UNCHANGED <<errors, formLoading, generatingReceipt, receiptReqs>>
    /\ UNCHANGED <<dbVars, ledgerVars, billingVars, orderVars>>

\* OrdersForm render of the Order Summary sidebar
renderSummary ==
    /\ shown' = [shown EXCEPT !["summary"] = SummaryCharge(formData, currentPrices)]
    /\ UNCHANGED <<order, formData, currentPrices, prices, nEdits, isEditing>>
    /\ UNCHANGED <<errors, formLoading, generatingReceipt, receiptReqs>>
    /\ UNCHANGED <<dbVars, ledgerVars, billingVars, orderVars>>

NextCharge ==
    \/ fetchPrices
    \/ fetchOrder
    \/ handleChange
    \/ viewReceipt
    \/ generateReceipt
    \/ viewOrderReceipt
    \/ generateOrderReceipt
    \/ renderSummary

SpecCharge == InitCharge /\ [][NextCharge]_vars

(***************************************************************************)
(* Claims about the order charge (checked under SpecCharge).               *)
(***************************************************************************)
\* the value is a number or a text of digits
IsNumeric(v) ==
    \/ v.k = "num"
    \/ v.k = "str" /\ v.s # << >> /\ \A i \in 1..Len(v.s) : IsDigit(v.s[i])

NumericOf(v) == IF v.k = "num" THEN v.n ELSE DigitsVal(v.s)

\* a quantity taken as 0 when absent or non-numeric
QtyOr0(v) == IF IsNumeric(v) THEN NumericOf(v) ELSE 0

\* the order state and price sheet a path computes from
InputsOf(p) ==
    IF p \in FormPaths THEN [o |-> formData, cp |-> currentPrices]
    ELSE [o |-> order, cp |-> FirstPrice(prices)]

ReceiptPaths == {"formPreview", "formDownload", "listPreview", "listDownload"}

\* C5: for every order and price the order charge is subtotal = can_qty *
\* price_per_can, missing_cans = max(0, can_qty - collected_qty) with an absent
\* collected_qty taken as 0, missing_can_charge = missing_cans * 500 and
\* total_amount = subtotal + delivery_amount + missing_can_charge with an absent
\* or non-numeric delivery_amount taken as 0.
C5_OrderCharge ==
    \A p \in ReceiptPaths :
        LET in == InputsOf(p)
            can == NumericOf(in.o.can_qty)
            price == NumericOf(in.cp.order_price)
            col == QtyOr0(in.o.collected_qty)
            del == QtyOr0(in.o.delivery_amount)
            miss == IF can - col > 0 THEN can - col ELSE 0
        IN  (shown[p].computed /\ IsNumeric(in.o.can_qty)
                /\ IsNumeric(in.cp.order_price))
            => /\ shown[p].subtotal = Num(can * price)
               /\ shown[p].missingCans = Num(miss)
               /\ shown[p].missingCanCharge = Num(miss * 500)
               /\ shown[p].totalAmount = Num(can * price + del + miss * 500)

\* C5 witness: 10 cans, 7 collected, delivery 50, price 60 gives 600, 3, 1500, 2150
C5_Witness ==
    \E p \in ReceiptPaths :
        /\ shown[p].computed
        /\ InputsOf(p).o.can_qty = Num(10)
        /\ InputsOf(p).o.collected_qty = Num(7)
        /\ InputsOf(p).o.delivery_amount = Num(50)
        /\ InputsOf(p).cp.order_price = Num(60)
        /\ shown[p].subtotal = Num(600)
        /\ shown[p].missingCans = Num(3)
        /\ shown[p].missingCanCharge = Num(1500)
        /\ shown[p].totalAmount = Num(2150)

\* the form shows the stored order under the served price sheet
FormInSync ==
    /\ formData = FetchOrderMap(order)
    /\ currentPrices = FirstPrice(prices)
    /\ currentPrices.present

\* two paths compute from the same order state and the same price sheet
SameInputs(p, q) ==
    \/ p \in FormPaths /\ q \in FormPaths /\ currentPrices.present
    \/ p \notin FormPaths /\ q \notin FormPaths
    \/ FormInSync

\* C6: for the same order state and the same price sheet, every path that
\* computes the order charge (order-form preview and download, order-list
\* preview and download, order-form summary sidebar) yields the same
\* total_amount.
C6_ChargeConsistency ==
    \A p \in Paths, q \in Paths :
        (shown[p].computed /\ shown[q].computed /\ SameInputs(p, q))
        => shown[p].totalAmount = shown[q].totalAmount

\* C6 witness: all five paths have computed the charge of one order with
\* missing cans
C6_Witness ==
    /\ FormInSync
    /\ \A p \in Paths : shown[p].computed
    /\ shown["summary"].missingCans = Num(3)
    /\ shown["listDownload"].totalAmount = shown["summary"].totalAmount

\* figures of the order charge a receipt presents
ChargeFigures == {"subtotal", "deliveryAmount", "missingCanCharge", "totalAmount"}

\* the keys a request body carries, those of a nested order object included
BodyKeys(body) ==
    DOMAIN body \cup (IF "order" \in DOMAIN body THEN DOMAIN body.order ELSE {})

\* names under which a body can carry a figure
KeysOf(figure) ==
    CASE figure = "subtotal" -> {"subtotal"}
      [] figure = "deliveryAmount" -> {"deliveryAmount"}
      [] figure = "missingCans" -> {"missingCans", "missing_cans"}
      [] figure = "missingCanCharge" -> {"missingCanCharge", "missing_can_charge"}
      [] figure = "totalAmount" -> {"totalAmount", "total_amount"}

\* the body carries the figure
Delivers(body, figure) == KeysOf(figure) \cap BodyKeys(body) # {}

\* the value under which the body carries it
DeliveredValue(body, figure) ==
    LET k == CHOOSE x \in KeysOf(figure) : x \in BodyKeys(body)
    IN  IF k \in DOMAIN body THEN body[k] ELSE body.order[k]

PreviewOf(download) ==
    IF download = "formDownload" THEN "formPreview" ELSE "listPreview"

\* C17: for every order state the receipt preview shows the same figures as
\* the receipt download: each of subtotal, delivery charge, missing-can charge
\* and total amount that the download request delivers is displayed by the
\* preview of the same screen with the same value, whether or not a can is
\* missing
C17_PreviewMatchesDownload ==
    \A d \in {"formDownload", "listDownload"} :
        (shown[d].computed /\ shown[PreviewOf(d)].computed)
        => \A figure \in ChargeFigures :
              Delivers(shown[d].body, figure)
              => /\ figure \in DOMAIN shown[PreviewOf(d)].html
                 /\ shown[PreviewOf(d)].html[figure] =
                       DeliveredValue(shown[d].body, figure)

\* C18: every receipt-download request carries both the computed charge
\* structure (subtotal, missing cans, missing-can charge, total) and the
\* customer/order metadata (the order's id and the customer's name), from the
\* order form as from the order list
C18_DownloadCarriesBoth ==
    \A d \in {"formDownload", "listDownload"} :
        shown[d].computed
        => /\ \A figure \in {"subtotal", "missingCans", "missingCanCharge",
                             "totalAmount"} : Delivers(shown[d].body, figure)
           /\ "customer_name" \in BodyKeys(shown[d].body)
           /\ {"id", "orderId"} \cap BodyKeys(shown[d].body) # {}

(***************************************************************************)
(* calculateReceiptData as a function of the quantities: the inputs are     *)
(* drawn from every can_qty and collected_qty up to a bound.               *)
(***************************************************************************)
\* largest can_qty of an input; collected_qty goes one above it
MaxQty == 3

\* form states calculateReceiptData is applied to: collected_qty absent
\* (undefined, null, a cleared input) or any number up to MaxQty + 1
ReceiptInputs ==
    [customer_name : {Str(<<"n">>)},
     can_qty : {Num(q) : q \in 0..MaxQty},
     collected_qty : {Undef, Null, Str(<< >>)} \cup {Num(q) : q \in 0..(MaxQty + 1)},
     delivery_amount : {Num(0), Num(50)}]

InitReceipt ==
    /\ formData \in ReceiptInputs
    /\ currentPrices = Sheet(Num(60), Num(40), Num(300))
    /\ prices = <<Sheet(Num(60), Num(40), Num(300))>>
    /\ order = [id |-> Num(1), customer_name |-> Str(<<"n">>), can_qty |-> Num(2),
                collected_qty |-> Null, delivery_amount |-> Null]
    /\ isEditing = TRUE
    /\ shown = [p \in Paths |-> NoCharge]
    /\ nEdits = 0
    /\ IdleForm
    /\ IdleDb
    /\ IdleLedger
    /\ IdleBilling
    /\ IdleOrders

\* the receipt figures of the form state are computed
calculateReceipt ==
    /\ ~shown["formPreview"].computed
    /\ shown' = [shown EXCEPT !["formPreview"] =
                    calculateReceiptData(formData, currentPrices)]
    /\ UNCHANGED <<order, formData, currentPrices, prices, nEdits, isEditing>>
    /\ UNCHANGED <<errors, formLoading, generatingReceipt, receiptReqs>>
    /\ UNCHANGED <<dbVars, ledgerVars, billingVars, orderVars>>

\* one more can is entered as collected and the figures are computed again
collectOneMore ==
    /\ shown["formPreview"].computed
    /\ QtyOr0(formData.collected_qty) <= MaxQty
    /\ formData' = [formData EXCEPT
                       !.collected_qty = Num(QtyOr0(formData.collected_qty) + 1)]
    /\ shown' = [shown EXCEPT !["formPreview"] =
                    calculateReceiptData(formData', currentPrices)]
    /\ UNCHANGED <<order, currentPrices, prices, nEdits, isEditing>>
    /\ UNCHANGED <<errors, formLoading, generatingReceipt, receiptReqs>>
    /\ UNCHANGED <<dbVars, ledgerVars, billingVars, orderVars>>

NextReceipt ==
    \/ calculateReceipt
    \/ collectOneMore

SpecReceipt == InitReceipt /\ [][NextReceipt]_vars

\* C16: for a fixed can_qty, missing_cans never increases as collected_qty
\* increases; it equals can_qty when collected_qty is 0 or absent, and it is 0
\* (never negative) for every collected_qty >= can_qty
C16_MissingCansMonotone ==
    [][shown'["formPreview"].computed =>
          LET can == formData'.can_qty.n
              col == QtyOr0(formData'.collected_qty)
              miss == shown'["formPreview"].missingCans
          IN  /\ miss.k = "num"
              /\ miss.n >= 0
              /\ (col = 0 => miss.n = can)
              /\ (col >= can => miss.n = 0)
              /\ (/\ shown["formPreview"].computed
                  /\ formData'.can_qty = formData.can_qty
                  /\ QtyOr0(formData.collected_qty) <= col)
                 => miss.n <= shown["formPreview"].missingCans.n]_vars

\* figures computed for an order with more cans collected than delivered: no
\* can is missing
C16_Witness ==
    /\ shown["formPreview"].computed
    /\ formData.can_qty.n > 0
    /\ formData.collected_qty.k = "num"
    /\ formData.collected_qty.n > formData.can_qty.n
    /\ shown["formPreview"].missingCans = Num(0)

(***************************************************************************)
(* Daily ledger: the daily_updates table behind /api/daily-updates and the *)
(* daily update screen.                                                    *)
(***************************************************************************)
\* rows of the table for one date (GET /api/daily-updates?date=)
RowsOn(db, d) == {r \in db : r.date = d}

RowsOf(db, c, d) == {r \in db : r.customer_id = c /\ r.date = d}

\* baseline a customer's balance starts from: can_qty for a recurring customer,
\* 0 for a non-recurring one
SeedHolding(c) ==
    IF customersDb[c].customer_type \in RecurringTypes
    THEN ToNumber(JsOr(customersDb[c].can_qty, Num(0))).n
    ELSE 0

\* holding carried into date d: the previous day's stored holding, else the seed
PriorHolding(db, c, d) ==
    IF RowsOf(db, c, getPreviousDay(d)) # {}
    THEN (CHOOSE r \in RowsOf(db, c, getPreviousDay(d)) : TRUE).holding_status
    ELSE SeedHolding(c)

NewRow(db, c, d, del, col, notes) ==
    [customer_id |-> c, date |-> d, delivered_qty |-> del, collected_qty |-> col,
     holding_status |-> PriorHolding(db, c, d) + del - col, notes |-> notes]

\* faulty variant: a plain insert that leaves an existing row of the key in place
UpsertDailyEntryInsert(db, c, d, del, col, notes) ==
    db \cup {NewRow(db, c, d, del, col, notes)}

\* faulty variant: the write also recomputes the next day's stored holding
UpsertDailyEntryCascade(db, c, d, del, col, notes) ==
    LET row == NewRow(db, c, d, del, col, notes)
    IN  {IF r.customer_id = c /\ r.date = d + 1
         THEN [r EXCEPT !.holding_status =
                  row.holding_status + r.delivered_qty - r.collected_qty]
         ELSE r : r \in {x \in db : ~(x.customer_id = c /\ x.date = d)}}
        \cup {row}

\* upsertDailyEntry: the row keyed (customer_id, date) is overwritten, all
\* fields; no other row is touched
UpsertDailyEntry(db, c, d, del, col, notes) ==
    {r \in db : ~(r.customer_id = c /\ r.date = d)}
        \cup {NewRow(db, c, d, del, col, notes)}

\* the request is well-formed: quantities are integers >= 0, the customer exists
ValidEntry(c, del, col) == c \in Customers /\ del >= 0 /\ col >= 0

\* no ledger row of the customer before date d
NoEarlierEntry(db, c, d) == ~\E r \in db : r.customer_id = c /\ r.date < d

\* bound on the number of user actions (date changes, edits, saves started)
\* in one behaviour
MaxActs == 3

\* texts typed into the delivered and collected inputs: a whole number, a
\* decimal fraction, a negative number (min="0" on the input only limits the
\* spinner, the typed text reaches onChange as it is)
TypedQty == {<<"3">>, <<"2", ".", "5">>, <<"-", "1">>}

\* texts typed into the notes input
TypedNotes == {<<"n">>}

\* customer.can_qty || 0
CanQtyOr0(c) == JsOr(customersDb[c].can_qty, Num(0))

\* fetchInitialData: the default DailyUpdateState of a customer
DefaultUpdate(c, prev) ==
    LET prevHolding == JsNullish(prev[c], CanQtyOr0(c))
        initialDelivered == CanQtyOr0(c)
        initialCollected == Num(0)
    IN  [delivered |-> initialDelivered,
         collected |-> initialCollected,
         holding_status |-> JsSub(JsAdd(prevHolding, initialDelivered),
                                  initialCollected),
         notes |-> << >>]

\* a fetched row as a DailyUpdateState
RowState(r) ==
    [delivered |-> Num(r.delivered_qty), collected |-> Num(r.collected_qty),
     holding_status |-> Num(r.holding_status), notes |-> r.notes]

\* rows.forEach(update => { if (map[update.customer_id]) map[...] = {...} })
Overlay(map, rows) ==
    [c \in Customers |->
        IF map[c] # Undef /\ (\E r \in rows : r.customer_id = c)
        THEN RowState(CHOOSE r \in rows : r.customer_id = c)
        ELSE map[c]]

\* prevDayUpdates.forEach(update => prevDayHoldings[customer_id] = holding_status)
HoldingsOf(rows) ==
    [c \in Customers |->
        IF \E r \in rows : r.customer_id = c
        THEN Num((CHOOSE r \in rows : r.customer_id = c).holding_status)
        ELSE Undef]

NoHoldings == [c \in Customers |-> Undef]

\* the screen shows the table (neither the spinner nor the error page)
ScreenUsable == ~loading /\ ~error

\* state right after the screen is mounted: the first load is under way
InitLedger ==
    /\ selectedDate = MaxDate
    /\ updates = [c \in Customers |-> Undef]
    /\ customers = {}
    /\ previousDayHoldings = NoHoldings
    /\ savingCustomerId = NoId
    /\ loading = TRUE
    /\ error = FALSE
    /\ loads = {MaxDate}
    /\ saves = {}
    /\ shownDate = 0
    /\ entriesDate = 0
    /\ seedUse = [c \in Customers |-> Undef]
    /\ lastWrite = Undef
    /\ nActs = 0
    /\ customersDb \in CustomerTables
    /\ dailyUpdates = {}
    /\ monthlyBills \in {{}, {BillRow("c1", ThisMonth, TRUE, FALSE, 0, 0, 0)}}
    /\ IdleCharge
    /\ IdleBilling
    /\ IdleOrders

\* date input onBlur: setSelectedDate(val), whose effect starts fetchInitialData
DateBlur ==
    /\ ScreenUsable
    /\ nActs < MaxActs
    /\ nActs' = nActs + 1
    /\ \E d \in Dates :
          /\ d # selectedDate
          /\ selectedDate' = d
          /\ loads' = loads \cup {d}
    /\ loading' = TRUE
    /\ error' = FALSE
    /\ UNCHANGED <<updates, customers, previousDayHoldings, savingCustomerId,
                   saves, shownDate, entriesDate, seedUse, lastWrite>>
    /\ UNCHANGED <<dbVars, chargeVars, billingVars, orderVars>>

\* fetchInitialData after its three responses arrived
\* (okC, okU, okP: customers, entries of the date, entries of the previous day)
FetchInitialDataDone ==
    \E d \in loads, okC \in BOOLEAN, okU \in BOOLEAN, okP \in BOOLEAN :
        /\ loads' = loads \ {d}
        /\ loading' = FALSE
        /\ IF ~okC
           THEN /\ error' = TRUE
                /\ UNCHANGED <<updates, customers, previousDayHoldings, shownDate, entriesDate,
                               seedUse>>
           ELSE LET prev == IF okP THEN HoldingsOf(RowsOn(dailyUpdates, getPreviousDay(d)))
                            ELSE NoHoldings
                    defaults == [c \in Customers |-> DefaultUpdate(c, prev)]
                    rows == IF okU THEN RowsOn(dailyUpdates, d) ELSE {}
                IN  /\ customers' = Customers
                    /\ previousDayHoldings' = prev
                    /\ updates' = Overlay(defaults, rows)
                    /\ shownDate' = d
                    /\ entriesDate' = d
                    /\ seedUse' = [c \in Customers |->
                          IF /\ prev[c] = Undef
                             /\ NoEarlierEntry(dailyUpdates, c, d)
                             /\ RowsOf(rows, c, d) = {}
                          THEN [prior |-> JsNullish(prev[c], CanQtyOr0(c)).n,
                                by |-> "load"]
                          ELSE seedUse[c]]
                    /\ UNCHANGED error
        /\ UNCHANGED <<selectedDate, savingCustomerId, saves, lastWrite, nActs>>
        /\ UNCHANGED <<dbVars, chargeVars, billingVars, orderVars>>

\* prior holding an edit starts from:
\* previousDayHoldings[customerId] ?? (customers.find(...)?.can_qty || 0)
BaseHolding(c) ==
    JsNullish(previousDayHoldings[c],
              IF c \in customers THEN CanQtyOr0(c) ELSE Num(0))

\* faulty variant: the derived holding is floored at 0
EditedQtyClamped(prev, c, field, value) ==
    LET existing == IF prev[c] # Undef THEN prev[c]
                    ELSE [delivered |-> Num(0), collected |-> Num(0),
                          holding_status |-> Num(0), notes |-> << >>]
        updated == [existing EXCEPT ![field] = Str(value)]
        deliveredQty == IF field = "delivered" THEN JsOr(ParseInt(Str(value)), Num(0))
                        ELSE JsOr(ParseInt(existing.delivered), Num(0))
        collectedQty == IF field = "collected" THEN JsOr(ParseInt(Str(value)), Num(0))
                        ELSE JsOr(ParseInt(existing.collected), Num(0))
    IN  [updated EXCEPT !.holding_status =
            JsMax0(JsSub(JsAdd(BaseHolding(c), deliveredQty), collectedQty))]

\* handleUpdateChange(customerId, field, value) for a quantity field
EditedQty(prev, c, field, value) ==
    LET existing == IF prev[c] # Undef THEN prev[c]
                    ELSE [delivered |-> Num(0), collected |-> Num(0),
                          holding_status |-> Num(0), notes |-> << >>]
        updated == [existing EXCEPT ![field] = Str(value)]
        deliveredQty == IF field = "delivered" THEN JsOr(ParseInt(Str(value)), Num(0))
                        ELSE JsOr(ParseInt(existing.delivered), Num(0))
        collectedQty == IF field = "collected" THEN JsOr(ParseInt(Str(value)), Num(0))
                        ELSE JsOr(ParseInt(existing.collected), Num(0))
    IN  [updated EXCEPT !.holding_status =
            JsSub(JsAdd(BaseHolding(c), deliveredQty), collectedQty)]

\* handleUpdateChange(customerId, 'notes', value)
EditedNotes(prev, c, value) ==
    LET existing == IF prev[c] # Undef THEN prev[c]
                    ELSE [delivered |-> Num(0), collected |-> Num(0),
                          holding_status |-> Num(0), notes |-> << >>]
    IN  [existing EXCEPT !.notes = value]

handleUpdateChange ==
    /\ ScreenUsable
    /\ nActs < MaxActs
    /\ nActs' = nActs + 1
    /\ \E c \in customers :
          \/ /\ \E field \in {"delivered", "collected"}, value \in TypedQty :
                   updates' = [updates EXCEPT ![c] = EditedQty(updates, c, field, value)]
             /\ seedUse' = IF /\ previousDayHoldings[c] = Undef
                               /\ NoEarlierEntry(dailyUpdates, c, shownDate)
                            THEN [seedUse EXCEPT ![c] =
                                     [prior |-> BaseHolding(c).n, by |-> "edit"]]
                            ELSE seedUse
          \/ /\ \E value \in TypedNotes :
                   updates' = [updates EXCEPT ![c] = EditedNotes(updates, c, value)]
             /\ UNCHANGED seedUse
    /\ UNCHANGED <<selectedDate, customers, previousDayHoldings, savingCustomerId,
                   loading, error, loads, saves, shownDate, entriesDate, lastWrite>>
    /\ UNCHANGED <<dbVars, chargeVars, billingVars, orderVars>>

\* updateData of handleSaveSingleUpdate
UpdateData(c) ==
    [customer_id |-> c,
     date |-> selectedDate,
     delivered_qty |-> JsOr(ParseInt(IF updates[c] = Undef THEN Undef
                                     ELSE updates[c].delivered), Num(0)).n,
     collected_qty |-> JsOr(ParseInt(IF updates[c] = Undef THEN Undef
                                     ELSE updates[c].collected), Num(0)).n,
     notes |-> IF updates[c] = Undef THEN << >> ELSE updates[c].notes]

\* handleSaveSingleUpdate up to the POST: the Save button of a row
SaveStart ==
    /\ ScreenUsable
    /\ nActs < MaxActs
    /\ \E c \in customers :
          /\ savingCustomerId # c
          /\ savingCustomerId' = c
          /\ saves' = saves \cup {[data |-> UpdateData(c), snap |-> updates,
                                   pc |-> "post"]}
    /\ nActs' = nActs + 1
    /\ UNCHANGED <<selectedDate, updates, customers, previousDayHoldings, loading,
                   error, loads, shownDate, entriesDate, seedUse, lastWrite>>
    /\ UNCHANGED <<dbVars, chargeVars, billingVars, orderVars>>

\* POST /api/daily-updates handled by the server
PostDailyUpdate(data, up) ==
    IF up /\ ValidEntry(data.customer_id, data.delivered_qty, data.collected_qty)
    THEN UpsertDailyEntry(dailyUpdates, data.customer_id, data.date,
                          data.delivered_qty, data.collected_qty, data.notes)
    ELSE dailyUpdates

\* the POST is answered: on success the refresh GET is sent, on failure the
\* error is toasted and the saving flag cleared
SavePosted ==
    \E s \in saves, up \in BOOLEAN :
        LET data == s.data
            ok == up /\ ValidEntry(data.customer_id, data.delivered_qty,
                                   data.collected_qty)
        IN  /\ s.pc = "post"
            /\ dailyUpdates' = PostDailyUpdate(data, up)
            /\ IF ok
               THEN /\ saves' = (saves \ {s}) \cup {[s EXCEPT !.pc = "refresh"]}
                    /\ lastWrite' = [data |-> data,
                                      repeat |-> lastWrite # Undef /\ lastWrite.data = data]
                    /\ seedUse' =
                          IF NoEarlierEntry(dailyUpdates, data.customer_id, data.date)
                          THEN [seedUse EXCEPT ![data.customer_id] =
                                  [prior |-> PriorHolding(dailyUpdates, data.customer_id,
                                                          data.date),
                                   by |-> "server"]]
                          ELSE seedUse
                    /\ UNCHANGED savingCustomerId
               ELSE /\ saves' = saves \ {s}
                    /\ savingCustomerId' = NoId
                    /\ UNCHANGED <<lastWrite, seedUse>>
            /\ UNCHANGED <<selectedDate, updates, customers, previousDayHoldings,
                           loading, error, loads, shownDate, entriesDate, nActs>>
            /\ UNCHANGED <<customersDb, monthlyBills, chargeVars, billingVars, orderVars>>

\* the refresh GET is answered: the entries of the saved date are laid over
\* the updates map the handler was created with
SaveRefreshed ==
    \E s \in saves, ok \in BOOLEAN :
        /\ s.pc = "refresh"
        /\ saves' = saves \ {s}
        /\ savingCustomerId' = NoId
        /\ updates' = IF ok THEN Overlay(s.snap, RowsOn(dailyUpdates, s.data.date))
                      ELSE updates
        /\ entriesDate' = IF ok THEN s.data.date ELSE entriesDate
        /\ UNCHANGED <<selectedDate, customers, previousDayHoldings, loading, error,
                       loads, shownDate, seedUse, lastWrite, nActs>>
        /\ UNCHANGED <<dbVars, chargeVars, billingVars, orderVars>>

\* "Try Again" on the error page: window.location.reload() mounts the screen anew
Reload ==
    /\ error
    /\ ~loading
    /\ selectedDate' = MaxDate
    /\ updates' = [c \in Customers |-> Undef]
    /\ customers' = {}
    /\ previousDayHoldings' = NoHoldings
    /\ savingCustomerId' = NoId
    /\ loading' = TRUE
    /\ error' = FALSE
    /\ loads' = {MaxDate}
    /\ saves' = {}
    /\ shownDate' = 0
    /\ entriesDate' = 0
    /\ UNCHANGED <<seedUse, lastWrite, nActs>>
    /\ UNCHANGED <<dbVars, chargeVars, billingVars, orderVars>>

NextLedger ==
    \/ DateBlur
    \/ FetchInitialDataDone
    \/ handleUpdateChange
    \/ SaveStart
    \/ SavePosted
    \/ SaveRefreshed
    \/ Reload

SpecLedger == InitLedger /\ [][NextLedger]_vars

(***************************************************************************)
(* Claims about the daily ledger (checked under SpecLedger).               *)
(***************************************************************************)
\* C1: after any sequence of daily ledger saves, in any date order, every
\* customer with entries on consecutive dates d and d+1 has
\* holding_status(d+1) = holding_status(d) + delivered_qty(d+1) - collected_qty(d+1).
C1_CarryForward ==
    \A r1 \in dailyUpdates, r2 \in dailyUpdates :
        (r1.customer_id = r2.customer_id /\ r2.date = r1.date + 1)
        => r2.holding_status
              = r1.holding_status + r2.delivered_qty - r2.collected_qty

\* C2: a holding derived for a customer's first-ever ledger entry starts from
\* the customer's can_qty baseline when the customer is of a recurring type and
\* from 0 when the customer is of a non-recurring type.
C2_SeedCorrectness ==
    \A c \in Customers :
        seedUse[c] # Undef
        => seedUse[c].prior
              = IF customersDb[c].customer_type \in RecurringTypes
                THEN QtyOr0(customersDb[c].can_qty)
                ELSE 0

\* the step in which the server applies the POST of the save s
IsWriteOf(s) ==
    /\ s \in saves
    /\ s.pc = "post"
    /\ s \notin saves'
    /\ [s EXCEPT !.pc = "refresh"] \in saves'

\* at most one row per (customer_id, date)
UniqueKeys(db) ==
    \A r1 \in db, r2 \in db :
        (r1.customer_id = r2.customer_id /\ r1.date = r2.date) => r1 = r2

\* C3: saving an entry twice with identical arguments and nothing in between
\* leaves the table as the first save left it, with one row for the key; and
\* after any sequence of saves there is never more than one row per
\* (customer, date).
C3_UpsertIdempotent ==
    /\ [](UniqueKeys(dailyUpdates))
    /\ [][\A s \in saves :
            (IsWriteOf(s) /\ lastWrite # Undef /\ lastWrite.data = s.data)
            => /\ dailyUpdates' = dailyUpdates
               /\ Cardinality(RowsOf(dailyUpdates', s.data.customer_id,
                                     s.data.date)) = 1]_vars

\* C3 witness: the latest write repeated the arguments of the one before it
C3_Witness ==
    /\ lastWrite # Undef
    /\ lastWrite.repeat
    /\ Cardinality(RowsOf(dailyUpdates, lastWrite.data.customer_id,
                          lastWrite.data.date)) = 1

\* C4: a daily ledger save for (c, d) changes only the row keyed (c, d): every
\* other ledger row, stored holding_status included, and every MonthlyBill row
\* is unchanged; and nothing but a save changes the ledger.
C4_SaveFrame ==
    [][/\ \A s \in saves :
             IsWriteOf(s)
             => /\ \A r \in dailyUpdates \cup dailyUpdates' :
                      ~(r.customer_id = s.data.customer_id /\ r.date = s.data.date)
                      => (r \in dailyUpdates /\ r \in dailyUpdates')
                /\ monthlyBills' = monthlyBills
       /\ (dailyUpdates' # dailyUpdates => \E s \in saves : IsWriteOf(s))]_vars

\* C4 witness: an earlier date was saved while the customer's next day and a
\* bill were already stored
C4_Witness ==
    /\ lastWrite # Undef
    /\ monthlyBills # {}
    /\ \E r \in dailyUpdates :
          /\ r.customer_id = lastWrite.data.customer_id
          /\ r.date = lastWrite.data.date + 1

\* the value is a whole number: a number, or a text of digits with an optional
\* minus sign
IsInteger(v) ==
    \/ IsNumeric(v)
    \/ v.k = "str" /\ Len(v.s) >= 2 /\ Head(v.s) = "-" /\ IsNumeric(Str(Tail(v.s)))

IntegerOf(v) == IF IsNumeric(v) THEN NumericOf(v) ELSE 0 - DigitsVal(Tail(v.s))

\* the step is handleUpdateChange changing a quantity field of customer c
QtyEditOf(c) ==
    /\ nActs' = nActs + 1
    /\ saves' = saves
    /\ selectedDate' = selectedDate
    /\ updates[c] # Undef
    /\ updates'[c] # updates[c]
    /\ updates'[c].notes = updates[c].notes

\* the holding the screen carries into the shown date for customer c
PriorOnScreen(c) ==
    IF previousDayHoldings[c].k = "num" THEN previousDayHoldings[c].n
    ELSE QtyOr0(customersDb[c].can_qty)

\* C11: the holding balance is never clamped: whenever an edit of a delivered
\* or collected quantity leaves whole numbers in both fields, the holding the
\* edit derives is exactly prior + delivered - collected, also when that is
\* below 0
C11_HoldingNotClamped ==
    [][\A c \in Customers :
          (/\ QtyEditOf(c)
           /\ IsInteger(updates'[c].delivered)
           /\ IsInteger(updates'[c].collected))
          => updates'[c].holding_status =
                Num(PriorOnScreen(c) + IntegerOf(updates'[c].delivered)
                      - IntegerOf(updates'[c].collected))]_vars

\* an edit has typed a collected quantity above prior + delivered and the row
\* shows the negative balance
C11_Witness ==
    \E c \in Customers :
        /\ updates[c] # Undef
        /\ updates[c].collected.k = "str"
        /\ IsInteger(updates[c].delivered)
        /\ IsInteger(updates[c].collected)
        /\ IntegerOf(updates[c].collected) >
              PriorOnScreen(c) + IntegerOf(updates[c].delivered)
        /\ updates[c].holding_status.k = "num"
        /\ updates[c].holding_status.n < 0

\* C12: in every ledger entry reachable by edits and saves, collected_qty is at
\* most the prior holding plus delivered_qty, so that holding_status is 0 or
\* positive: this holds of every row shown on the screen and of every stored
\* row
C12_NonNegativeHolding ==
    /\ \A c \in Customers :
          (updates[c] # Undef /\ updates[c].holding_status.k = "num")
          => updates[c].holding_status.n >= 0
    /\ \A r \in dailyUpdates : r.holding_status >= 0

\* the quantity field holds a negative number or a text that is not a whole
\* number (a cleared field holds no quantity)
BadQty(v) ==
    \/ v.k = "num" /\ v.n < 0
    \/ v.k = "str" /\ v.s # << >> /\ ~IsNumeric(v)

\* C13: a daily ledger save whose delivered or collected quantity is negative
\* or not an integer fails and writes nothing: when the POST of such a save is
\* answered, the ledger table is unchanged and the save does not go on to its
\* refresh; the quantity is never truncated and written
C13_BadQuantityRejected ==
    [][\A s \in saves :
          LET row == s.snap[s.data.customer_id]
          IN  (/\ s.pc = "post"
               /\ s \notin saves'
               /\ row # Undef
               /\ (BadQty(row.delivered) \/ BadQty(row.collected)))
              => /\ dailyUpdates' = dailyUpdates
                 /\ [s EXCEPT !.pc = "refresh"] \notin saves']_vars

\* C24: saving customer A's entry does not change what the screen holds for
\* any other customer B (delivered, collected, notes as typed), also when B
\* was edited while A's save and refresh were in flight: the step that ends
\* A's refresh leaves every other customer's row as it was
C24_SaveKeepsOtherEdits ==
    [][\A s \in saves :
          (s.pc = "refresh" /\ s \notin saves' /\ loading' = loading)
          => \A b \in Customers \ {s.data.customer_id} :
                updates'[b] = updates[b]]_vars

\* C26: after the selected date was changed any number of times, with the
\* load responses arriving in any order, once no load is outstanding the
\* entries and previous-day holdings on the screen are those loaded for the
\* selected date
C26_EntriesOfSelectedDate ==
    (loads = {} /\ saves = {} /\ ScreenUsable)
    => /\ entriesDate = selectedDate
       /\ shownDate = selectedDate

(***************************************************************************)
(* Monthly billing: the monthly_bills table behind                         *)
(* /api/bills/save-monthly-bills, the snapshots of                         *)
(* /api/daily-updates/monthly-bills and the billing screen.                *)
(***************************************************************************)
\* ledger rows of a customer within a month
LedgerOfMonth(db, c, m) == {r \in db : r.customer_id = c /\ MonthOf(r.date) = m}

RECURSIVE SumDelivered(_)
SumDelivered(rows) ==
    IF rows = {} THEN 0
    ELSE LET r == CHOOSE x \in rows : TRUE
         IN  r.delivered_qty + SumDelivered(rows \ {r})

\* price per can of a customer type on a price sheet
PricePerCan(type, sheet) ==
    IF type = "shop" THEN sheet.shop_price
    ELSE IF type = "monthly" THEN sheet.monthly_price
    ELSE sheet.order_price

StoredBills(db, c, m) == {r \in db : r.customer_id = c /\ r.bill_month = m}

\* computeMonthlyBill: the snapshot of a customer's month, from the ledger rows
\* and the current price sheet; the paid flag is the stored bill's
computeMonthlyBill(c, m) ==
    LET rows == LedgerOfMonth(dailyUpdates, c, m)
        total == SumDelivered(rows)
        price == ToNumber(PricePerCan(customersDb[c].customer_type,
                                      FirstPrice(prices))).n
    IN  [customer_id |-> c,
         customer_type |-> customersDb[c].customer_type,
         total_cans_delivered |-> total,
         total_delivery_days |-> Cardinality({r \in rows : r.delivered_qty > 0}),
         bill_amount |-> total * price,
         paid_status |-> \E r \in StoredBills(monthlyBills, c, m) : r.paid_status]

\* GET /api/daily-updates/monthly-bills?month=m: a snapshot per customer
MonthlyBillsOf(m) == {computeMonthlyBill(c, m) : c \in Customers}

\* saveMonthlyBills: each element of the batch that does not fail replaces the
\* row of its key (customer_id, bill_month)
saveMonthlyBills(db, batch, failed) ==
    LET saved == {b \in batch : b.customer_id \notin failed}
    IN  {r \in db : ~\E b \in saved : /\ b.customer_id = r.customer_id
                                      /\ b.bill_month = r.bill_month}
            \cup saved

\* tables left by an earlier session: one delivery to c1 and the bills saved
\* from it
OpeningLedger ==
    {[customer_id |-> "c1", date |-> 1, delivered_qty |-> 2, collected_qty |-> 0,
      holding_status |-> 4, notes |-> << >>]}

OpeningBills ==
    {BillRow("c1", ThisMonth, FALSE, FALSE, 600, 2, 1),
     BillRow("c2", ThisMonth, FALSE, FALSE, 0, 0, 0)}

\* quantities another session delivers
PostedQty == {0, 3}

FilterStatuses == {"all", "paid", "unpaid"}

\* filteredBills (the search box left empty)
filteredBills ==
    {b \in bills : \/ filterStatus = "all"
                   \/ (filterStatus = "paid" /\ b.paid_status)
                   \/ (filterStatus = "unpaid" /\ ~b.paid_status)}

\* bills.find(b => b.customer_id === customerId)?.field || 0
BillField(c, field) ==
    IF \E b \in bills : b.customer_id = c
    THEN (CHOOSE b \in bills : b.customer_id = c)[field]
    ELSE 0

\* billData of updateBillStatus
StatusBillData(c, newPaidStatus) ==
    BillRow(c, selectedMonth, newPaidStatus, FALSE,
            BillField(c, "bill_amount"),
            BillField(c, "total_cans_delivered"),
            BillField(c, "total_delivery_days"))

\* billsToSave of handleSaveAllBillsToDB
BillsToSave ==
    {BillRow(b.customer_id, selectedMonth, b.paid_status, FALSE, b.bill_amount,
             b.total_cans_delivered, b.total_delivery_days) : b \in filteredBills}

\* ledgerData of openLedger: the month's rows of the customer by ascending date
RECURSIVE LedgerData(_)
LedgerData(rows) ==
    IF rows = {} THEN << >>
    ELSE LET r == CHOOSE x \in rows : \A y \in rows : x.date <= y.date
         IN  <<r>> \o LedgerData(rows \ {r})

\* ledgerData.reduce((sum, d) => sum + Number(d.delivered_qty), 0)
RECURSIVE ReduceDelivered(_, _)
ReduceDelivered(sum, data) ==
    IF data = << >> THEN sum
    ELSE ReduceDelivered(JsAdd(sum, ToNumber(Num(Head(data).delivered_qty))),
                         Tail(data))

\* openLedger with every customer charged the order price (faulty variant)
openLedgerFiguresOrderPrice(bill, month, currentPrice, ledgerData) ==
    LET pricePerCan == currentPrice.order_price
        totalCans == ReduceDelivered(Num(0), ledgerData)
        totalAmount == JsMul(totalCans, pricePerCan)
    IN  [computed |-> TRUE, customer_id |-> bill.customer_id, month |-> month,
         totalCans |-> totalCans, totalAmount |-> totalAmount]

\* openLedger: pricePerCan, totalCans and totalAmount of the ledger view
openLedgerFigures(bill, month, currentPrice, ledgerData) ==
    LET pricePerCan == IF bill.customer_type = "shop" THEN currentPrice.shop_price
                       ELSE IF bill.customer_type = "monthly"
                            THEN currentPrice.monthly_price
                            ELSE currentPrice.order_price
        totalCans == ReduceDelivered(Num(0), ledgerData)
        totalAmount == JsMul(totalCans, pricePerCan)
    IN  [computed |-> TRUE, customer_id |-> bill.customer_id, month |-> month,
         totalCans |-> totalCans, totalAmount |-> totalAmount]

\* state right after the billing screen is mounted: the first fetch is under way
InitBilling ==
    /\ selectedMonth = ThisMonth
    /\ bills = {}
    /\ filterStatus = "all"
    /\ billsLoading = TRUE
    /\ billsError = FALSE
    /\ isSavingBills = FALSE
    /\ updatingStatusId = NoId
    /\ billFetches = {ThisMonth}
    /\ billPosts = {}
    /\ saveReport = NoReport
    /\ selectedBillForModal = NoId
    /\ ledgerViews = {}
    /\ ledgerHTML = NoFigures
    /\ billsMonth = 0
    /\ isModalOpen = FALSE
    /\ isGeneratingBills = FALSE
    /\ generation = NoBatch
    /\ nBillActs = 0
    /\ customersDb \in {CustomerTable(t, Num(1)) : t \in {"shop", "order"}}
    /\ dailyUpdates = OpeningLedger
    /\ monthlyBills = OpeningBills
    /\ IdleCharge
    /\ IdleLedger
    /\ IdleOrders

\* month input onChange: setSelectedMonth, whose effect starts fetchMonthlyBills
setSelectedMonth ==
    /\ ~billsLoading
    /\ nBillActs < MaxActs
    /\ nBillActs' = nBillActs + 1
    /\ \E m \in Months :
          /\ m # selectedMonth
          /\ selectedMonth' = m
          /\ billFetches' = billFetches \cup {m}
    /\ billsLoading' = TRUE
    /\ billsError' = FALSE
    /\ UNCHANGED <<bills, filterStatus, isSavingBills, updatingStatusId, billPosts,
                   saveReport, selectedBillForModal, ledgerViews, ledgerHTML>>
    /\ UNCHANGED <<billsMonth, isModalOpen>>
    /\ UNCHANGED <<isGeneratingBills, generation>>
    /\ UNCHANGED <<dbVars, chargeVars, ledgerVars, orderVars>>

\* status filter onChange
setFilterStatus ==
    /\ ~billsLoading
    /\ nBillActs < MaxActs
    /\ nBillActs' = nBillActs + 1
    /\ \E f \in FilterStatuses :
          /\ f # filterStatus
          /\ filterStatus' = f
    /\ UNCHANGED <<selectedMonth, bills, billsLoading, billsError, isSavingBills,
                   updatingStatusId, billFetches, billPosts, saveReport,
                   selectedBillForModal, ledgerViews, ledgerHTML>>
    /\ UNCHANGED <<billsMonth, isModalOpen>>
    /\ UNCHANGED <<isGeneratingBills, generation>>
    /\ UNCHANGED <<dbVars, chargeVars, ledgerVars, orderVars>>

\* fetchMonthlyBills after its response arrived
fetchMonthlyBills ==
    \E m \in billFetches, ok \in BOOLEAN :
        /\ billFetches' = billFetches \ {m}
        /\ billsLoading' = FALSE
        /\ IF ok
           THEN /\ bills' = MonthlyBillsOf(m)
                /\ billsMonth' = m
                /\ UNCHANGED billsError
           ELSE /\ billsError' = TRUE
                /\ UNCHANGED <<bills, billsMonth>>
        /\ UNCHANGED <<selectedMonth, filterStatus, isSavingBills, updatingStatusId,
                       billPosts, saveReport, selectedBillForModal, ledgerViews,
                       ledgerHTML, nBillActs>>
        /\ UNCHANGED isModalOpen
        /\ UNCHANGED <<isGeneratingBills, generation>>
        /\ UNCHANGED <<dbVars, chargeVars, ledgerVars, orderVars>>

\* updateBillStatus up to the POST: the paid/unpaid select of a bill row
StatusStart ==
    /\ ~billsLoading
    /\ nBillActs < MaxActs
    /\ nBillActs' = nBillActs + 1
    /\ \E b \in filteredBills :
          /\ updatingStatusId # b.customer_id
          /\ updatingStatusId' = b.customer_id
          /\ billPosts' = billPosts \cup
                {[kind |-> "status", customer_id |-> b.customer_id,
                  paid |-> ~b.paid_status, month |-> selectedMonth,
                  fetched |-> billsMonth,
                  bills |-> {StatusBillData(b.customer_id, ~b.paid_status)}]}
    /\ UNCHANGED <<selectedMonth, bills, filterStatus, billsLoading, billsError,
                   isSavingBills, billFetches, saveReport, selectedBillForModal,
                   ledgerViews, ledgerHTML>>
    /\ UNCHANGED <<billsMonth, isModalOpen>>
    /\ UNCHANGED <<isGeneratingBills, generation>>
    /\ UNCHANGED <<dbVars, chargeVars, ledgerVars, orderVars>>

\* the status POST is answered: on success the held bill takes the new flag
StatusPosted ==
    \E p \in billPosts, up \in BOOLEAN :
        /\ p.kind = "status"
        /\ billPosts' = billPosts \ {p}
        /\ monthlyBills' = IF up THEN saveMonthlyBills(monthlyBills, p.bills, {})
                           ELSE monthlyBills
        /\ bills' = IF up
                    THEN {IF b.customer_id = p.customer_id
                          THEN [b EXCEPT !.paid_status = p.paid]
                          ELSE b : b \in bills}
                    ELSE bills
        /\ updatingStatusId' = NoId
        /\ UNCHANGED <<selectedMonth, filterStatus, billsLoading, billsError,
                       isSavingBills, billFetches, saveReport, selectedBillForModal,
                       ledgerViews, ledgerHTML, nBillActs>>
        /\ UNCHANGED <<billsMonth, isModalOpen>>
        /\ UNCHANGED <<isGeneratingBills, generation>>
        /\ UNCHANGED <<customersDb, dailyUpdates, chargeVars, ledgerVars, orderVars>>

\* handleSaveAllBillsToDB up to the POST: the "save all" button
SaveAllStart ==
    /\ ~billsLoading
    /\ ~isSavingBills
    /\ nBillActs < MaxActs
    /\ nBillActs' = nBillActs + 1
    /\ IF filteredBills = {}
       THEN /\ saveReport' = [NoReport EXCEPT !.kind = "nothing to save"]
            /\ UNCHANGED <<isSavingBills, billPosts>>
       ELSE /\ isSavingBills' = TRUE
            /\ billPosts' = billPosts \cup
                  {[kind |-> "all", customer_id |-> NoId, paid |-> FALSE,
                    month |-> selectedMonth, fetched |-> billsMonth,
                    bills |-> BillsToSave]}
            /\ UNCHANGED saveReport
    /\ UNCHANGED <<selectedMonth, bills, filterStatus, billsLoading, billsError,
                   updatingStatusId, billFetches, selectedBillForModal,
                   ledgerViews, ledgerHTML>>
    /\ UNCHANGED <<billsMonth, isModalOpen>>
    /\ UNCHANGED <<isGeneratingBills, generation>>
    /\ UNCHANGED <<dbVars, chargeVars, ledgerVars, orderVars>>

\* the "save all" POST is answered.  failed: the elements the server could not
\* save; ok: the status of its answer.  A success is toasted as "All bills
\* saved", a failure with the message of the answer; on success the bills of
\* the month the handler was created with are fetched again
SaveAllPosted ==
    \E p \in billPosts, ok \in BOOLEAN :
      \E failed \in SUBSET {b.customer_id : b \in p.bills} :
        /\ p.kind = "all"
        /\ failed = {} => ok
        /\ billPosts' = billPosts \ {p}
        /\ monthlyBills' = saveMonthlyBills(monthlyBills, p.bills, failed)
        /\ isSavingBills' = FALSE
        /\ IF ok
           THEN /\ saveReport' = [kind |-> "success",
                                  sent |-> {b.customer_id : b \in p.bills},
                                  failed |-> failed, reported |-> {}]
                /\ billsLoading' = TRUE
                /\ billsError' = FALSE
                /\ billFetches' = billFetches \cup {p.month}
           ELSE /\ saveReport' = [kind |-> "error",
                                  sent |-> {b.customer_id : b \in p.bills},
                                  failed |-> failed, reported |-> failed]
                /\ UNCHANGED <<billsLoading, billsError, billFetches>>
        /\ UNCHANGED <<selectedMonth, bills, filterStatus, updatingStatusId,
                       selectedBillForModal, ledgerViews, ledgerHTML, nBillActs>>
        /\ UNCHANGED <<billsMonth, isModalOpen>>
        /\ UNCHANGED <<isGeneratingBills, generation>>
        /\ UNCHANGED <<customersDb, dailyUpdates, chargeVars, ledgerVars, orderVars>>

\* openLedger up to its requests: the ledger button of a bill row
OpenLedgerStart ==
    /\ ~billsLoading
    /\ nBillActs < MaxActs
    /\ nBillActs' = nBillActs + 1
    /\ \E b \in filteredBills :
          /\ selectedBillForModal' = b.customer_id
          /\ ledgerViews' = ledgerViews \cup {[bill |-> b, month |-> selectedMonth]}
    /\ isModalOpen' = TRUE
    /\ UNCHANGED <<selectedMonth, bills, filterStatus, billsLoading, billsError,
                   isSavingBills, updatingStatusId, billFetches, billPosts,
                   saveReport, ledgerHTML>>
    /\ UNCHANGED billsMonth
    /\ UNCHANGED <<isGeneratingBills, generation>>
    /\ UNCHANGED <<dbVars, chargeVars, ledgerVars, orderVars>>

\* openLedger after the prices and the ledger rows arrived (okP, okL); a
\* failure, or a price list without a first row, is toasted and shows nothing new
openLedger ==
    \E v \in ledgerViews, okP \in BOOLEAN, okL \in BOOLEAN :
        /\ ledgerViews' = ledgerViews \ {v}
        /\ ledgerHTML' =
              IF okP /\ okL /\ FirstPrice(prices).present
              THEN openLedgerFigures(v.bill, v.month, FirstPrice(prices),
                      LedgerData(LedgerOfMonth(dailyUpdates, v.bill.customer_id,
                                               v.month)))
              ELSE ledgerHTML
        /\ isModalOpen' = IF okP /\ okL /\ FirstPrice(prices).present
                          THEN TRUE ELSE isModalOpen
        /\ UNCHANGED <<selectedMonth, bills, filterStatus, billsLoading, billsError,
                       isSavingBills, updatingStatusId, billFetches, billPosts,
                       saveReport, selectedBillForModal, nBillActs>>
        /\ UNCHANGED billsMonth
        /\ UNCHANGED <<isGeneratingBills, generation>>
        /\ UNCHANGED <<dbVars, chargeVars, ledgerVars, orderVars>>

\* the close button of the modal: setIsModalOpen(false)
closeModal ==
    /\ ~billsLoading
    /\ isModalOpen
    /\ nBillActs < MaxActs
    /\ nBillActs' = nBillActs + 1
    /\ isModalOpen' = FALSE
    /\ UNCHANGED <<selectedMonth, bills, filterStatus, billsLoading, billsError,
                   isSavingBills, updatingStatusId, billFetches, billPosts,
                   saveReport, selectedBillForModal, ledgerViews, ledgerHTML,
                   billsMonth>>
        /\ UNCHANGED <<isGeneratingBills, generation>>
        /\ UNCHANGED <<dbVars, chargeVars, ledgerVars, orderVars>>

\* a ledger entry saved meanwhile from the daily update screen of another
\* session (POST /api/daily-updates)
PostLedgerEntry ==
    /\ nBillActs < MaxActs
    /\ nBillActs' = nBillActs + 1
    /\ \E c \in Customers, d \in Dates, del \in PostedQty :
          dailyUpdates' = UpsertDailyEntry(dailyUpdates, c, d, del, 0, << >>)
    /\ UNCHANGED <<selectedMonth, bills, filterStatus, billsLoading, billsError,
                   isSavingBills, updatingStatusId, billFetches, billPosts,
                   saveReport, selectedBillForModal, ledgerViews, ledgerHTML>>
    /\ UNCHANGED <<billsMonth, isModalOpen>>
    /\ UNCHANGED <<isGeneratingBills, generation>>
    /\ UNCHANGED <<customersDb, monthlyBills, chargeVars, ledgerVars, orderVars>>

\* a billing-status update that marks a stored bill as sent
MarkSent ==
    /\ nBillActs < MaxActs
    /\ nBillActs' = nBillActs + 1
    /\ \E r \in monthlyBills :
          /\ ~r.sent_status
          /\ monthlyBills' = (monthlyBills \ {r})
                                \cup {[r EXCEPT !.sent_status = TRUE]}
    /\ UNCHANGED <<selectedMonth, bills, filterStatus, billsLoading, billsError,
                   isSavingBills, updatingStatusId, billFetches, billPosts,
                   saveReport, selectedBillForModal, ledgerViews, ledgerHTML>>
    /\ UNCHANGED <<billsMonth, isModalOpen>>
    /\ UNCHANGED <<isGeneratingBills, generation>>
    /\ UNCHANGED <<customersDb, dailyUpdates, chargeVars, ledgerVars, orderVars>>

NextBilling ==
    \/ setSelectedMonth
    \/ setFilterStatus
    \/ fetchMonthlyBills
    \/ StatusStart
    \/ StatusPosted
    \/ SaveAllStart
    \/ SaveAllPosted
    \/ OpenLedgerStart
    \/ openLedger
    \/ closeModal
    \/ PostLedgerEntry
    \/ MarkSent

SpecBilling == InitBilling /\ [][NextBilling]_vars

(***************************************************************************)
(* Claims about monthly billing (checked under SpecBilling).               *)
(***************************************************************************)
\* cans delivered to customer c on the days 1..d that fall in month m
RECURSIVE DeliveredUpTo(_, _, _)
DeliveredUpTo(c, m, d) ==
    IF d = 0 THEN 0
    ELSE DeliveredUpTo(c, m, d - 1)
         + (IF MonthOf(d) = m /\ RowsOf(dailyUpdates, c, d) # {}
            THEN (CHOOSE r \in RowsOf(dailyUpdates, c, d) : TRUE).delivered_qty
            ELSE 0)

ExpectedCans(c, m) == DeliveredUpTo(c, m, MaxDate)

ExpectedDays(c, m) ==
    Cardinality({d \in Dates : /\ MonthOf(d) = m
                               /\ \E r \in RowsOf(dailyUpdates, c, d) :
                                     r.delivered_qty > 0})

ExpectedPrice(c) ==
    LET sheet == FirstPrice(prices)
        type == customersDb[c].customer_type
    IN  CASE type = "shop" -> NumericOf(sheet.shop_price)
          [] type = "monthly" -> NumericOf(sheet.monthly_price)
          [] OTHER -> NumericOf(sheet.order_price)

\* C7: whenever bill figures are computed for a customer and month (the
\* snapshots a fetch answers, the totals of the ledger view), total cans is the
\* sum of delivered_qty over the month's ledger entries, delivery days the
\* number of those entries with delivered_qty > 0, and the amount total cans
\* times the current sheet's shop_price for a shop customer, monthly_price for
\* a monthly customer and order_price for any other type.
C7_BillFigures ==
    [][/\ (billFetches' # billFetches /\ bills' # bills)
          => \E m \in billFetches \ billFetches' :
                \A b \in bills' :
                    /\ b.total_cans_delivered = ExpectedCans(b.customer_id, m)
                    /\ b.total_delivery_days = ExpectedDays(b.customer_id, m)
                    /\ b.bill_amount = ExpectedCans(b.customer_id, m)
                                          * ExpectedPrice(b.customer_id)
       /\ (ledgerViews' # ledgerViews /\ ledgerHTML' # ledgerHTML)
          => \E v \in ledgerViews \ ledgerViews' :
                LET c == v.bill.customer_id
                IN  /\ ledgerHTML'.customer_id = c
                    /\ ledgerHTML'.totalCans = Num(ExpectedCans(c, v.month))
                    /\ ledgerHTML'.totalAmount
                          = Num(ExpectedCans(c, v.month) * ExpectedPrice(c))]_vars

\* C7 witness: the ledger view and the fetched bill of a shop or monthly
\* customer show cans delivered in a month that also has a day without a delivery
C7_Witness ==
    /\ ledgerHTML.computed
    /\ ledgerHTML.totalCans.n > 0
    /\ ledgerHTML.totalAmount.n > 0
    /\ customersDb[ledgerHTML.customer_id].customer_type \in {"shop", "monthly"}
    /\ \E b \in bills :
          /\ b.customer_id = ledgerHTML.customer_id
          /\ b.total_cans_delivered = ledgerHTML.totalCans.n
          /\ b.bill_amount = ledgerHTML.totalAmount.n
          /\ b.total_delivery_days
                < Cardinality(LedgerOfMonth(dailyUpdates, b.customer_id,
                                            ledgerHTML.month))

\* C8: when one element of a "save all" batch fails and the others are valid,
\* every other element is stored and the one failure is reported individually.
C8_BatchPartialFailure ==
    [][\A p \in billPosts :
          (/\ p.kind = "all"
           /\ p \notin billPosts'
           /\ Cardinality(p.bills) > 1
           /\ Cardinality(saveReport'.failed) = 1)
          => /\ \A b \in p.bills :
                   b.customer_id \notin saveReport'.failed => b \in monthlyBills'
             /\ saveReport'.reported = saveReport'.failed]_vars

\* C9: across a paid-status change for (c, m) the stored bill of (c, m) keeps
\* its bill_amount, total cans and delivery days (the change submits the
\* values held for (c, m)), and no bill of another key changes.
C9_StatusKeepsTotals ==
    [][\A p \in billPosts :
          (p.kind = "status" /\ p \notin billPosts')
          => /\ \A r \in StoredBills(monthlyBills, p.customer_id, p.month) :
                   \E r2 \in StoredBills(monthlyBills', p.customer_id, p.month) :
                         /\ r2.bill_amount = r.bill_amount
                         /\ r2.total_cans = r.total_cans
                         /\ r2.delivery_days = r.delivery_days
             /\ \A r \in monthlyBills \cup monthlyBills' :
                   ~(r.customer_id = p.customer_id /\ r.bill_month = p.month)
                   => (r \in monthlyBills /\ r \in monthlyBills')]_vars

\* C10: a billing-status update that changes paid_status leaves the
\* sent_status of that bill as it was.
C10_PaidLeavesSent ==
    [][\A p \in billPosts :
          (p.kind = "status" /\ p \notin billPosts')
          => \A r \in StoredBills(monthlyBills, p.customer_id, p.month) :
                \A r2 \in StoredBills(monthlyBills', p.customer_id, p.month) :
                    r2.sent_status = r.sent_status]_vars

\* C25: every bill submitted under bill_month M, by "save all" or by a
\* paid-status change, carries totals that were fetched for month M, also
\* after the selected month was changed and the fetch of the new month failed
\* or has not returned
C25_TotalsOfSubmittedMonth ==
    \A p \in billPosts : p.fetched = p.month

\* C28: whenever the ledger modal is open and shows ledger content, the
\* content is the ledger of the bill opened last, also after a failed fetch
\* and when two "View Ledger" requests overlap
C28_ModalShowsOpenedBill ==
    (isModalOpen /\ ledgerHTML.computed)
    => ledgerHTML.customer_id = selectedBillForModal

(***************************************************************************)
(* The calendar of the ledger modal as a function of the month and of the  *)
(* month's ledger rows: the inputs are drawn from months of every length   *)
(* and from ledgers of up to MaxEntries rows.                              *)
(***************************************************************************)
\* largest number of ledger rows of an input
MaxEntries == 2

\* selectedMonth values ("YYYY-MM") of 31, 28, 29 and 30 days
CalendarMonths ==
    {[year |-> 2023, monthNum |-> 1], [year |-> 2023, monthNum |-> 2],
     [year |-> 2024, monthNum |-> 2], [year |-> 2024, monthNum |-> 4]}

\* new Date(year, monthNum, 0).getDate(): the last day of the month
DaysInMonth(year, monthNum) ==
    IF monthNum = 2
    THEN IF (year % 4 = 0 /\ year % 100 # 0) \/ year % 400 = 0 THEN 29 ELSE 28
    ELSE IF monthNum \in {4, 6, 9, 11} THEN 30 ELSE 31

\* Math.ceil(daysInMonth / 2)
CeilHalf(n) == (n + 1) \div 2

\* new Date(entry.date).getDate()
GetDate(date) == date.day

\* dailyDeliveries: the Map filled by ledgerData.forEach, a later row of a day
\* replacing an earlier one; a day without a row gets undefined
RECURSIVE DailyDeliveries(_, _)
DailyDeliveries(map, data) ==
    IF data = << >> THEN map
    ELSE DailyDeliveries(
            [day \in 1..31 |-> IF day = GetDate(Head(data).date)
                               THEN Num(Head(data).delivered_qty)
                               ELSE map[day]],
            Tail(data))

\* the table rows of calendarHTML
calendarRows(daysInMonth, dailyDeliveries) ==
    [i \in 1..CeilHalf(daysInMonth) |->
        LET dayLeft == i
            dayRight == i + CeilHalf(daysInMonth)
            get(day) == IF day \in 1..31 THEN dailyDeliveries[day] ELSE Undef
        IN  [dayLeft |-> Num(dayLeft),
             deliveredQtyLeft |-> JsOr(get(dayLeft), Str(<< >>)),
             dayRight |-> IF dayRight <= daysInMonth THEN Num(dayRight)
                          ELSE Str(<< >>),
             deliveredQtyRight |-> IF dayRight <= daysInMonth
                                   THEN JsOr(get(dayRight), Str(<< >>))
                                   ELSE Str(<< >>)]]

\* days a ledger row of an input falls on: the first and last days of both
\* columns and the days around the end of the month
CalendarDays(n) == {1, CeilHalf(n), CeilHalf(n) + 1, 28, n}

\* ledgers of a month: up to MaxEntries rows of customer c1, one per day,
\* delivering nothing (a collection only) or two cans
CalendarLedgers(m) ==
    LET rows == {[customer_id |-> "c1",
                  date |-> [year |-> m.year, monthNum |-> m.monthNum, day |-> d],
                  delivered_qty |-> q, collected_qty |-> 0, holding_status |-> q,
                  notes |-> << >>] :
                    d \in CalendarDays(DaysInMonth(m.year, m.monthNum)), q \in {0, 2}}
    IN  {l \in SUBSET rows :
            /\ Cardinality(l) <= MaxEntries
            /\ \A r1, r2 \in l : r1.date = r2.date => r1 = r2}

\* GET /api/daily-updates/ledger of the calendar: the rows by ascending day
RECURSIVE CalendarLedgerData(_)
CalendarLedgerData(rows) ==
    IF rows = {} THEN << >>
    ELSE LET r == CHOOSE x \in rows : \A y \in rows : x.date.day <= y.date.day
         IN  <<r>> \o CalendarLedgerData(rows \ {r})

InitCalendar ==
    /\ selectedMonth \in CalendarMonths
    /\ dailyUpdates \in CalendarLedgers(selectedMonth)
    /\ customersDb = CustomerTable("monthly", Num(1))
    /\ monthlyBills = {}
    /\ bills = {}
    /\ filterStatus = "all"
    /\ billsLoading = FALSE
    /\ billsError = FALSE
    /\ isSavingBills = FALSE
    /\ updatingStatusId = NoId
    /\ billFetches = {}
    /\ billPosts = {}
    /\ saveReport = NoReport
    /\ selectedBillForModal = NoId
    /\ ledgerViews = {}
    /\ ledgerHTML = NoFigures
    /\ billsMonth = 0
    /\ isModalOpen = FALSE
    /\ isGeneratingBills = FALSE
    /\ generation = NoBatch
    /\ nBillActs = 0
    /\ IdleCharge
    /\ IdleLedger
    /\ IdleOrders

\* openLedger of customer c1's bill up to its requests
openCalendarStart ==
    /\ ledgerViews = {}
    /\ ~ledgerHTML.computed
    /\ selectedBillForModal' = "c1"
    /\ isModalOpen' = TRUE
    /\ ledgerViews' = {[bill |-> "c1", month |-> selectedMonth]}
    /\ UNCHANGED <<selectedMonth, bills, filterStatus, billsLoading, billsError,
                   isSavingBills, updatingStatusId, billFetches, billPosts,
                   saveReport, ledgerHTML, billsMonth, nBillActs>>
    /\ UNCHANGED <<isGeneratingBills, generation>>
    /\ UNCHANGED <<dbVars, chargeVars, ledgerVars, orderVars>>

\* openLedger after the ledger rows arrived: the calendar is built and shown
openCalendar ==
    \E v \in ledgerViews :
        LET ledgerData == CalendarLedgerData(dailyUpdates)
            daysInMonth == DaysInMonth(v.month.year, v.month.monthNum)
        IN  /\ ledgerViews' = ledgerViews \ {v}
            /\ ledgerHTML' =
                  [computed |-> TRUE, customer_id |-> v.bill, month |-> v.month,
                   rows |-> calendarRows(daysInMonth,
                               DailyDeliveries([day \in 1..31 |-> Undef],
                                               ledgerData))]
            /\ UNCHANGED <<selectedMonth, bills, filterStatus, billsLoading,
                           billsError, isSavingBills, updatingStatusId,
                           billFetches, billPosts, saveReport,
                           selectedBillForModal, billsMonth, isModalOpen,
                           nBillActs>>
            /\ UNCHANGED <<isGeneratingBills, generation>>
            /\ UNCHANGED <<dbVars, chargeVars, ledgerVars, orderVars>>

NextCalendar ==
    \/ openCalendarStart
    \/ openCalendar

SpecCalendar == InitCalendar /\ [][NextCalendar]_vars

\* the cells of the calendar, read column by column: the left column from
\* top to bottom, then the right column
CalendarDayCells(rows) ==
    [k \in 1..(2 * Len(rows)) |->
        IF k <= Len(rows) THEN rows[k].dayLeft ELSE rows[k - Len(rows)].dayRight]

CalendarQtyCells(rows) ==
    [k \in 1..(2 * Len(rows)) |->
        IF k <= Len(rows) THEN rows[k].deliveredQtyLeft
        ELSE rows[k - Len(rows)].deliveredQtyRight]

\* the days 1..daysInMonth appear once each in ascending order, the left
\* column holding 1..ceil(n/2), and no cell holds a day after the last
CalendarLayout ==
    ledgerHTML.computed =>
        LET n == DaysInMonth(ledgerHTML.month.year, ledgerHTML.month.monthNum)
            days == CalendarDayCells(ledgerHTML.rows)
        IN  /\ Len(ledgerHTML.rows) = CeilHalf(n)
            /\ \A k \in 1..Len(days) :
                  days[k] = IF k <= n THEN Num(k) ELSE Str(<< >>)

\* C23: for every month length from 28 to 31 days the two-column ledger view
\* lists each day 1..daysInMonth once in ascending order (left column
\* 1..ceil(n/2), right column the rest), shows no day after the month's last
\* day, and shows against each day the delivered_qty recorded for that day
C23_CalendarListsDays ==
    /\ CalendarLayout
    /\ ledgerHTML.computed =>
          \A r \in dailyUpdates :
             CalendarQtyCells(ledgerHTML.rows)[r.date.day] = Num(r.delivered_qty)

(***************************************************************************)
(* Batch bill generation: handleGenerateAllBills and generatePdfForBill of *)
(* Billing.tsx.  Every bill of the batch is a job of its own: the ledger   *)
(* fetch, then the rendering request, then the entry of the archive.       *)
(***************************************************************************)
\* bound on the number of batches started in one behaviour
MaxBatches == 1

Letters ==
    {"a", "b", "c", "d", "e", "f", "g", "h", "i", "j", "k", "l", "m", "n", "o",
     "p", "q", "r", "s", "t", "u", "v", "w", "x", "y", "z"}

\* name.replace(/[^a-zA-Z0-9\s]/g, '')
RECURSIVE RemoveSpecial(_)
RemoveSpecial(s) ==
    IF s = << >> THEN << >>
    ELSE IF Head(s) \in Letters \/ IsDigit(Head(s)) \/ Head(s) = " "
         THEN <<Head(s)>> \o RemoveSpecial(Tail(s))
         ELSE RemoveSpecial(Tail(s))

\* text.trim()
RECURSIVE TrimLeft(_)
TrimLeft(s) == IF s # << >> /\ Head(s) = " " THEN TrimLeft(Tail(s)) ELSE s

RECURSIVE TrimRight(_)
TrimRight(s) ==
    IF s # << >> /\ s[Len(s)] = " " THEN TrimRight(SubSeq(s, 1, Len(s) - 1)) ELSE s

Trim(s) == TrimRight(TrimLeft(s))

\* text.replace(/\s+/g, '-')
RECURSIVE Hyphenate(_)
Hyphenate(s) ==
    IF s = << >> THEN << >>
    ELSE IF Head(s) = " " THEN <<"-">> \o Hyphenate(TrimLeft(s))
         ELSE <<Head(s)>> \o Hyphenate(Tail(s))

\* filename of a bill within the archive
BillFilename(name) ==
    Hyphenate(Trim(RemoveSpecial(name))) \o <<"-", "b", "i", "l", "l", ".", "p", "d", "f">>

\* zip.file(filename, pdfBlob): the entry of that name is the blob of customer c
ZipFile(zip, filename, c) ==
    {f \in zip : f.filename # filename}
        \cup {[filename |-> filename, customer_id |-> c]}

\* names the customers table can hold
CustomerNames == {<<"a">>, <<"a", " ", "b">>, <<"a", "&">>}

\* the bills on screen: the snapshots of the month with the customers' names
BillsNamed(names) ==
    {[name |-> names[c]] @@ computeMonthlyBill(c, ThisMonth) : c \in Customers}

\* the billing screen with the bills of the month loaded
InitGenerate ==
    /\ order = [id |-> Num(1), customer_name |-> Str(<<"n">>), can_qty |-> Num(2),
                collected_qty |-> Null, delivery_amount |-> Null]
    /\ prices \in {<< >>, <<Sheet(Num(60), Num(40), Num(300))>>}
    /\ isEditing = FALSE
    /\ formData = DefaultFormData
    /\ currentPrices = NoSheet
    /\ shown = [p \in Paths |-> NoCharge]
    /\ nEdits = 0
    /\ IdleForm
    /\ customersDb = CustomerTable("shop", Num(1))
    /\ dailyUpdates = OpeningLedger
    /\ monthlyBills = {}
    /\ selectedMonth = ThisMonth
    /\ \E names \in [Customers -> CustomerNames] : bills = BillsNamed(names)
    /\ filterStatus = "all"
    /\ billsLoading = FALSE
    /\ billsError = FALSE
    /\ isSavingBills = FALSE
    /\ updatingStatusId = NoId
    /\ billFetches = {}
    /\ billPosts = {}
    /\ saveReport = NoReport
    /\ selectedBillForModal = NoId
    /\ ledgerViews = {}
    /\ ledgerHTML = NoFigures
    /\ billsMonth = ThisMonth
    /\ isModalOpen = FALSE
    /\ isGeneratingBills = FALSE
    /\ generation = NoBatch
    /\ nBillActs = 0
    /\ IdleLedger
    /\ IdleOrders

\* what a step of the batch leaves alone
GenerateUnchanged ==
    /\ UNCHANGED <<selectedMonth, bills, filterStatus, billsLoading, billsError,
                   isSavingBills, updatingStatusId, billFetches, billPosts,
                   saveReport, selectedBillForModal, ledgerViews, ledgerHTML,
                   billsMonth, isModalOpen>>
    /\ UNCHANGED <<dbVars, chargeVars, ledgerVars, orderVars>>

\* handleGenerateAllBills up to the price request: the "Download Bills" button
handleGenerateAllBills ==
    /\ ~billsLoading
    /\ ~isGeneratingBills
    /\ nBillActs < MaxBatches
    /\ nBillActs' = nBillActs + 1
    /\ isGeneratingBills' = TRUE
    /\ generation' = [NoBatch EXCEPT !.pc = "prices", !.bills = filteredBills]
    /\ GenerateUnchanged

\* the batch ends: the flag is cleared and the user is told how it went
BatchEnded(g, report) == [g EXCEPT !.pc = "idle", !.jobs = {}, !.report = report]

\* the prices arrived (ok) or not: without a current price the batch ends,
\* with one every bill starts its job; a batch without bills is settled at once
generatePricesFetched ==
    \E ok \in BOOLEAN :
        /\ generation.pc = "prices"
        /\ IF ~ok
           THEN /\ generation' = BatchEnded(generation, "error")
                /\ isGeneratingBills' = FALSE
           ELSE IF ~FirstPrice(prices).present
           THEN /\ generation' = BatchEnded(generation, "no price")
                /\ isGeneratingBills' = FALSE
           ELSE IF generation.bills = {}
           THEN /\ generation' = BatchEnded(generation, "nothing generated")
                /\ isGeneratingBills' = FALSE
           ELSE /\ generation' =
                      [generation EXCEPT
                          !.pc = "jobs",
                          !.jobs = {[bill |-> b, pc |-> "ledger"] :
                                       b \in generation.bills},
                          !.toasts = [c \in Customers |->
                                         IF \E b \in generation.bills :
                                               b.customer_id = c
                                         THEN "loading" ELSE "none"]]
                /\ UNCHANGED isGeneratingBills
        /\ UNCHANGED nBillActs
        /\ GenerateUnchanged

\* generatePdfForBill: the ledger of a job arrived (ok) or not; a failure is
\* toasted for the customer and ends the job
generateLedgerFetched ==
    \E j \in generation.jobs, ok \in BOOLEAN :
        /\ generation.pc = "jobs"
        /\ j.pc = "ledger"
        /\ generation' =
              IF ok
              THEN [generation EXCEPT
                       !.jobs = (@ \ {j}) \cup {[j EXCEPT !.pc = "pdf"]}]
              ELSE [generation EXCEPT
                       !.jobs = @ \ {j},
                       !.toasts[j.bill.customer_id] = "error"]
        /\ UNCHANGED <<isGeneratingBills, nBillActs>>
        /\ GenerateUnchanged

\* generatePdfForBill: the rendering request of a job is answered; a PDF is
\* filed in the archive under the bill's filename, a failure is toasted
generatePdfDone ==
    \E j \in generation.jobs, ok \in BOOLEAN :
        /\ generation.pc = "jobs"
        /\ j.pc = "pdf"
        /\ generation' =
              IF ok
              THEN [generation EXCEPT
                       !.jobs = @ \ {j},
                       !.zip = ZipFile(@, BillFilename(j.bill.name),
                                       j.bill.customer_id),
                       !.toasts[j.bill.customer_id] = "success"]
              ELSE [generation EXCEPT
                       !.jobs = @ \ {j},
                       !.toasts[j.bill.customer_id] = "error"]
        /\ UNCHANGED <<isGeneratingBills, nBillActs>>
        /\ GenerateUnchanged

\* Promise.all settled: an empty archive ends the batch, otherwise it is zipped
generateAllSettled ==
    /\ generation.pc = "jobs"
    /\ generation.jobs = {}
    /\ IF generation.zip = {}
       THEN /\ generation' = BatchEnded(generation, "nothing generated")
            /\ isGeneratingBills' = FALSE
       ELSE /\ generation' = [generation EXCEPT !.pc = "zip"]
            /\ UNCHANGED isGeneratingBills
    /\ UNCHANGED nBillActs
    /\ GenerateUnchanged

\* faulty variant of generateZipped: the flag is cleared on the success path
\* only, not in a finally block
generateZippedNoFinally ==
    \E ok \in BOOLEAN :
        /\ generation.pc = "zip"
        /\ generation' =
              IF ok
              THEN [BatchEnded(generation, "downloaded") EXCEPT
                       !.archive = generation.zip]
              ELSE BatchEnded(generation, "error")
        /\ isGeneratingBills' = IF ok THEN FALSE ELSE isGeneratingBills
        /\ UNCHANGED nBillActs
        /\ GenerateUnchanged

\* zip.generateAsync finished (ok) or threw: the archive is downloaded or the
\* error is toasted
generateZipped ==
    \E ok \in BOOLEAN :
        /\ generation.pc = "zip"
        /\ generation' =
              IF ok
              THEN [BatchEnded(generation, "downloaded") EXCEPT
                       !.archive = generation.zip]
              ELSE BatchEnded(generation, "error")
        /\ isGeneratingBills' = FALSE
        /\ UNCHANGED nBillActs
        /\ GenerateUnchanged

NextGenerate ==
    \/ handleGenerateAllBills
    \/ generatePricesFetched
    \/ generateLedgerFetched
    \/ generatePdfDone
    \/ generateAllSettled
    \/ generateZipped

SpecGenerate == InitGenerate /\ [][NextGenerate]_vars

\* C21: the jobs of a batch run independently and finish in any order: a
\* failure of one customer is reported for that customer, every other
\* customer's bill that succeeds is in the downloaded archive, and no success
\* and no failure is dropped silently
C21_EverySuccessArchived ==
    generation.report = "downloaded"
    => \A b \in generation.bills :
          /\ generation.toasts[b.customer_id] \in {"success", "error"}
          /\ generation.toasts[b.customer_id] = "success"
             => \E f \in generation.archive : f.customer_id = b.customer_id

(***************************************************************************)
(* Orders API: server/routes/orders.routes.js over the orders table.  A    *)
(* handler runs up to its next pool.query; each query is one step of the   *)
(* database and may fail, which the handler answers with 500.              *)
(***************************************************************************)
\* bound on the number of requests in one behaviour
MaxReqs == 2

\* bound on the ids the table hands out
MaxOrders == 2

OrderIds == 1..MaxOrders

\* fields the POST handler tests before it inserts
RequiredFields ==
    {"order_date", "customer_name", "customer_phone", "customer_address",
     "can_qty", "delivery_date", "delivery_time", "order_status"}

OrderStatuses == {"pending", "processing", "delivered", "cancelled"}

\* a request body with every field
CompleteOrder ==
    [order_date |-> Str(<<"d">>), customer_name |-> Str(<<"n">>),
     customer_phone |-> Str(<<"p">>), customer_address |-> Str(<<"a">>),
     delivery_amount |-> Num(0), can_qty |-> Num(2), collected_qty |-> Num(1),
     collected_date |-> Null, delivery_date |-> Str(<<"d">>),
     delivery_time |-> Str(<<"t">>), order_status |-> Str(<<"pending">>),
     notes |-> Str(<< >>)]

\* request bodies as destructured by the handlers (an absent field is
\* undefined): the complete one, one per required field left out, an empty
\* customer name, no collected_qty, a status outside the four
OrderBodies ==
    {CompleteOrder}
        \cup {[CompleteOrder EXCEPT ![f] = Undef] : f \in RequiredFields}
        \cup {[CompleteOrder EXCEPT !.customer_name = Str(<< >>)],
              [CompleteOrder EXCEPT !.collected_qty = Undef],
              [CompleteOrder EXCEPT !.order_status = Str(<<"shipped">>)]}

\* a query parameter as the driver writes it into the statement: undefined
\* becomes NULL
SqlValue(v) == IF v.k = "undef" THEN Null ELSE v

\* notes === '' ? null : notes
ProcessedNotes(b) == IF b.notes = Str(<< >>) THEN Null ELSE b.notes

\* the test of the POST handler: 'Missing required fields'
MissingRequired(b) ==
    \/ ~Truthy(b.order_date)
    \/ ~Truthy(b.customer_name)
    \/ ~Truthy(b.customer_phone)
    \/ ~Truthy(b.customer_address)
    \/ b.can_qty.k = "undef"
    \/ b.can_qty.k = "null"
    \/ ~Truthy(b.delivery_date)
    \/ ~Truthy(b.delivery_time)
    \/ ~Truthy(b.order_status)

\* the row INSERT INTO orders (...) VALUES (...) stores
InsertedRow(id, b) ==
    [id |-> id] @@
    [f \in DOMAIN b |->
        SqlValue(CASE f = "collected_qty" -> JsOr(b.collected_qty, Num(0))
                   [] f = "notes" -> ProcessedNotes(b)
                   [] OTHER -> b[f])]

\* the row UPDATE orders SET ... WHERE id = ? leaves
UpdatedRow(id, b) ==
    [id |-> id] @@
    [f \in DOMAIN b |->
        SqlValue(CASE f = "notes" -> ProcessedNotes(b)
                   [] OTHER -> b[f])]

\* faulty variant: the SELECT without its WHERE clause
SelectByIdNoWhere(tbl, id) == tbl

\* SELECT * FROM orders WHERE id = ?
SelectById(tbl, id) == {o \in tbl : o.id = id}

\* rows[0]
FirstRow(rows) == IF rows = {} THEN Undef ELSE CHOOSE o \in rows : TRUE

Response(n, kind, id, status, body, row, wrote) ==
    [n |-> n, kind |-> kind, id |-> id, status |-> status, body |-> body,
     row |-> row, wrote |-> wrote]

\* a request whose handler waits for its next query
Pending(n, kind, id, body, pc, wrote) ==
    [n |-> n, kind |-> kind, id |-> id, body |-> body, pc |-> pc, wrote |-> wrote]

\* the server starts on an empty table or on one holding a stored order
InitOrders ==
    /\ orders \in {{}, {InsertedRow(1, CompleteOrder)}}
    /\ nextId = Cardinality(orders) + 1
    /\ writers = [i \in OrderIds |-> IF i < nextId THEN CompleteOrder ELSE Undef]
    /\ orderReqs = {}
    /\ lastResp = NoResp
    /\ nReqs = 0
    /\ IdleCharge
    /\ IdleDb
    /\ IdleLedger
    /\ IdleBilling

\* GET /
GetOrders ==
    /\ nReqs < MaxReqs
    /\ nReqs' = nReqs + 1
    /\ \E ok \in BOOLEAN :
          lastResp' = Response(nReqs', "list", 0, IF ok THEN 200 ELSE 500,
                               Undef, Undef, FALSE)
    /\ UNCHANGED <<orders, nextId, orderReqs, writers>>
    /\ UNCHANGED <<dbVars, chargeVars, ledgerVars, billingVars>>

\* GET /:id
GetOrder ==
    /\ nReqs < MaxReqs
    /\ nReqs' = nReqs + 1
    /\ \E id \in OrderIds, ok \in BOOLEAN :
          LET rows == SelectById(orders, id)
          IN  lastResp' =
                 IF ~ok THEN Response(nReqs', "get", id, 500, Undef, Undef, FALSE)
                 ELSE IF rows # {}
                      THEN Response(nReqs', "get", id, 200, Undef, FirstRow(rows),
                                    FALSE)
                      ELSE Response(nReqs', "get", id, 404, Undef, Undef, FALSE)
    /\ UNCHANGED <<orders, nextId, orderReqs, writers>>
    /\ UNCHANGED <<dbVars, chargeVars, ledgerVars, billingVars>>

\* POST /: the test for required fields, then the INSERT
PostOrder ==
    /\ nReqs < MaxReqs
    /\ nReqs' = nReqs + 1
    /\ \E b \in OrderBodies, ok \in BOOLEAN :
          IF MissingRequired(b)
          THEN /\ lastResp' = Response(nReqs', "post", 0, 400, b, Undef, FALSE)
               /\ UNCHANGED <<orders, nextId, orderReqs, writers>>
          ELSE IF ~ok
          THEN /\ lastResp' = Response(nReqs', "post", 0, 500, b, Undef, FALSE)
               /\ UNCHANGED <<orders, nextId, orderReqs, writers>>
          ELSE /\ nextId <= MaxOrders
               /\ orders' = orders \cup {InsertedRow(nextId, b)}
               /\ writers' = [writers EXCEPT ![nextId] = b]
               /\ nextId' = nextId + 1
               /\ orderReqs' = orderReqs \cup
                     {Pending(nReqs', "post", nextId, b, "select", TRUE)}
               /\ UNCHANGED lastResp
    /\ UNCHANGED <<dbVars, chargeVars, ledgerVars, billingVars>>

\* POST /: the SELECT of the new row and the 201
PostSelect ==
    /\ \E q \in orderReqs, ok \in BOOLEAN :
          /\ q.kind = "post"
          /\ q.pc = "select"
          /\ orderReqs' = orderReqs \ {q}
          /\ lastResp' =
                IF ok THEN Response(q.n, "post", q.id, 201, q.body,
                                    FirstRow(SelectById(orders, q.id)), q.wrote)
                ELSE Response(q.n, "post", q.id, 500, q.body, Undef, q.wrote)
    /\ UNCHANGED <<orders, nextId, writers, nReqs>>
    /\ UNCHANGED <<dbVars, chargeVars, ledgerVars, billingVars>>

\* PUT /:id: the SELECT of the existing order
PutLookup ==
    /\ nReqs < MaxReqs
    /\ nReqs' = nReqs + 1
    /\ \E id \in OrderIds, b \in OrderBodies, ok \in BOOLEAN :
          IF ~ok
          THEN /\ lastResp' = Response(nReqs', "put", id, 500, b, Undef, FALSE)
               /\ UNCHANGED orderReqs
          ELSE IF SelectById(orders, id) = {}
          THEN /\ lastResp' = Response(nReqs', "put", id, 404, b, Undef, FALSE)
               /\ UNCHANGED orderReqs
          ELSE /\ orderReqs' = orderReqs \cup
                     {Pending(nReqs', "put", id, b, "update", FALSE)}
               /\ UNCHANGED lastResp
    /\ UNCHANGED <<orders, nextId, writers>>
    /\ UNCHANGED <<dbVars, chargeVars, ledgerVars, billingVars>>

\* PUT /:id: the UPDATE
PutUpdate ==
    /\ \E q \in orderReqs, ok \in BOOLEAN :
          /\ q.kind = "put"
          /\ q.pc = "update"
          /\ IF ~ok
             THEN /\ orderReqs' = orderReqs \ {q}
                  /\ lastResp' = Response(q.n, "put", q.id, 500, q.body, Undef, FALSE)
                  /\ UNCHANGED <<orders, writers>>
             ELSE LET hit == \E o \in orders : o.id = q.id
                  IN  /\ orders' = {IF o.id = q.id THEN UpdatedRow(q.id, q.body)
                                    ELSE o : o \in orders}
                      /\ writers' = IF hit THEN [writers EXCEPT ![q.id] = q.body]
                                    ELSE writers
                      /\ orderReqs' = (orderReqs \ {q}) \cup
                            {Pending(q.n, "put", q.id, q.body, "select", hit)}
                      /\ UNCHANGED lastResp
    /\ UNCHANGED <<nextId, nReqs>>
    /\ UNCHANGED <<dbVars, chargeVars, ledgerVars, billingVars>>

\* PUT /:id: the SELECT of the updated row and the 200
PutSelect ==
    /\ \E q \in orderReqs, ok \in BOOLEAN :
          /\ q.kind = "put"
          /\ q.pc = "select"
          /\ orderReqs' = orderReqs \ {q}
          /\ lastResp' =
                IF ok THEN Response(q.n, "put", q.id, 200, q.body,
                                    FirstRow(SelectById(orders, q.id)), q.wrote)
                ELSE Response(q.n, "put", q.id, 500, q.body, Undef, q.wrote)
    /\ UNCHANGED <<orders, nextId, writers, nReqs>>
    /\ UNCHANGED <<dbVars, chargeVars, ledgerVars, billingVars>>

\* DELETE /:id: the SELECT of the existing order
DeleteLookup ==
    /\ nReqs < MaxReqs
    /\ nReqs' = nReqs + 1
    /\ \E id \in OrderIds, ok \in BOOLEAN :
          IF ~ok
          THEN /\ lastResp' = Response(nReqs', "delete", id, 500, Undef, Undef, FALSE)
               /\ UNCHANGED orderReqs
          ELSE IF SelectById(orders, id) = {}
          THEN /\ lastResp' = Response(nReqs', "delete", id, 404, Undef, Undef, FALSE)
               /\ UNCHANGED orderReqs
          ELSE /\ orderReqs' = orderReqs \cup
                     {Pending(nReqs', "delete", id, Undef, "delete", FALSE)}
               /\ UNCHANGED lastResp
    /\ UNCHANGED <<orders, nextId, writers>>
    /\ UNCHANGED <<dbVars, chargeVars, ledgerVars, billingVars>>

\* DELETE /:id: the DELETE and the 200
DeleteOrder ==
    /\ \E q \in orderReqs, ok \in BOOLEAN :
          /\ q.kind = "delete"
          /\ q.pc = "delete"
          /\ orderReqs' = orderReqs \ {q}
          /\ IF ok
             THEN /\ orders' = {o \in orders : o.id # q.id}
                  /\ lastResp' = Response(q.n, "delete", q.id, 200, Undef, Undef,
                                          \E o \in orders : o.id = q.id)
             ELSE /\ lastResp' = Response(q.n, "delete", q.id, 500, Undef, Undef, FALSE)
                  /\ UNCHANGED orders
    /\ UNCHANGED <<nextId, writers, nReqs>>
    /\ UNCHANGED <<dbVars, chargeVars, ledgerVars, billingVars>>

NextOrders ==
    \/ GetOrders
    \/ GetOrder
    \/ PostOrder
    \/ PostSelect
    \/ PutLookup
    \/ PutUpdate
    \/ PutSelect
    \/ DeleteLookup
    \/ DeleteOrder

SpecOrders == InitOrders /\ [][NextOrders]_vars

(***************************************************************************)
(* Claims about the orders API (checked under SpecOrders).                 *)
(***************************************************************************)
ByIdKinds == {"get", "put", "delete"}

\* the step receives a read, update or delete request for order id
ByIdArrival(id) ==
    /\ nReqs' = nReqs + 1
    /\ \/ /\ lastResp'.n = nReqs'
          /\ lastResp'.kind \in ByIdKinds
          /\ lastResp'.id = id
       \/ \E q \in orderReqs' : q.n = nReqs' /\ q.kind \in ByIdKinds /\ q.id = id

\* C14: a read, update or delete of an order id that does not exist performs
\* no write, the stored orders are unchanged, and it is answered at once, with
\* not-found (404) whenever the database answers the lookup (a failed lookup
\* is answered 500)
C14_MissingIdNotFound ==
    [][\A id \in OrderIds :
          (ByIdArrival(id) /\ ~\E o \in orders : o.id = id)
          => /\ orders' = orders
             /\ lastResp'.n = nReqs'
             /\ lastResp'.status # 500 => lastResp'.status = 404]_vars

\* an update or a delete of an id that is not in a non-empty table was
\* answered 404
C14_Witness ==
    /\ lastResp.kind \in {"put", "delete"}
    /\ lastResp.status = 404
    /\ orders # {}
    /\ ~\E o \in orders : o.id = lastResp.id

\* the body leaves out a required field: absent, null or empty
LacksRequired(b) ==
    \E f \in RequiredFields : b[f].k \in {"undef", "null"} \/ b[f] = Str(<< >>)

\* C15: every order create or update request that is missing a required
\* field (order date, customer name, phone, address, can quantity, delivery
\* date, delivery time, status) is answered with an error and has written
\* nothing to the stored orders
C15_MissingFieldRejected ==
    [][(/\ lastResp' # lastResp
        /\ lastResp'.kind \in {"post", "put"}
        /\ LacksRequired(lastResp'.body))
       => /\ lastResp'.status >= 400
          /\ ~lastResp'.wrote]_vars

\* C19: after any sequence of order create and update requests every stored
\* order has a collected_qty value, and the value is 0 whenever the request
\* that last wrote the order supplied none
C19_CollectedQtyDefault ==
    \A o \in orders :
        /\ o.collected_qty.k = "num"
        /\ writers[o.id].collected_qty.k \in {"undef", "null"}
           => o.collected_qty = Num(0)

\* C20: after any sequence of order create and update requests every stored
\* order has order_status in {pending, processing, delivered, cancelled}
C20_StatusDomain ==
    \A o \in orders : \E st \in OrderStatuses : o.order_status = Str(<<st>>)

\* C22: a create-order request that is answered with a failure (500) has
\* inserted no order, so that retrying it cannot leave a duplicate
C22_FailedCreateInsertsNothing ==
    [][(/\ lastResp' # lastResp
        /\ lastResp'.kind = "post"
        /\ lastResp'.status = 500)
       => ~lastResp'.wrote]_vars

\* C27: under any interleaving of update and delete requests for the same
\* order id, an update answered 200 returns the updated row of that id, and an
\* update that was applied when the order no longer existed is answered 404
C27_UpdateDeleteRace ==
    [][(lastResp' # lastResp /\ lastResp'.kind = "put")
       => /\ lastResp'.status = 200
             => /\ lastResp'.row # Undef
                /\ lastResp'.row.id = lastResp'.id
          /\ (~lastResp'.wrote /\ lastResp'.status # 500)
             => lastResp'.status = 404]_vars

(***************************************************************************)
(* Order form: validate and handleSubmit of OrdersForm.tsx.  The request   *)
(* the form sends is a request the orders API receives.                    *)
(***************************************************************************)
\* bound on the number of field edits before the form is submitted
MaxFormEdits == 2

\* UTF-16 code unit order of the characters a field can hold
CharCode(c) ==
    IF c = "-" THEN 45
    ELSE IF c = "." THEN 46
    ELSE IF IsDigit(c) THEN 48 + DigitVal(c)
    ELSE 97

\* s < t for two strings: code unit by code unit
RECURSIVE TextLess(_, _)
TextLess(s, t) ==
    IF t = << >> THEN FALSE
    ELSE IF s = << >> THEN TRUE
    ELSE IF Head(s) = Head(t) THEN TextLess(Tail(s), Tail(t))
    ELSE CharCode(Head(s)) < CharCode(Head(t))

\* a < b: two strings are compared as strings, anything else as numbers
JsLt(a, b) ==
    IF a.k = "str" /\ b.k = "str" THEN TextLess(a.s, b.s)
    ELSE LET x == ToNumber(a)
             y == ToNumber(b)
         IN  x.k = "num" /\ y.k = "num" /\ x.n < y.n

\* a > b
JsGt(a, b) == JsLt(b, a)

\* a <= b
JsLe(a, b) ==
    IF a.k = "str" /\ b.k = "str" THEN ~TextLess(b.s, a.s)
    ELSE LET x == ToNumber(a)
             y == ToNumber(b)
         IN  x.k = "num" /\ y.k = "num" /\ x.n <= y.n

\* text.split('T')[0]
RECURSIVE BeforeT(_)
BeforeT(s) ==
    IF s = << >> \/ Head(s) = "T" THEN << >>
    ELSE <<Head(s)>> \o BeforeT(Tail(s))

\* useState default of formData, with the customer fields typed in
NewOrderForm ==
    [order_date |-> Str(<<"d">>), customer_name |-> Str(<<"n">>),
     customer_phone |-> Str(<<"p">>), customer_address |-> Str(<<"a">>),
     delivery_amount |-> Num(0), can_qty |-> Num(0), collected_qty |-> Num(0),
     collected_date |-> Str(<< >>), delivery_date |-> Str(<<"d">>),
     delivery_time |-> Str(<<"1", "0", ":", "0", "0">>),
     order_status |-> Str(<<"pending">>), notes |-> Str(<< >>)]

\* fetchOrder: the form state made of the order GET /api/orders/:id answers
FetchedOrderForm(data) ==
    [order_date |-> Str(BeforeT(data.order_date.s)),
     customer_name |-> data.customer_name,
     customer_phone |-> data.customer_phone,
     customer_address |-> data.customer_address,
     delivery_amount |-> JsOr(data.delivery_amount, Num(0)),
     can_qty |-> data.can_qty,
     collected_qty |-> JsOr(data.collected_qty, Num(0)),
     collected_date |-> IF Truthy(data.collected_date)
                        THEN Str(BeforeT(data.collected_date.s)) ELSE Str(<< >>),
     delivery_date |-> Str(BeforeT(data.delivery_date.s)),
     delivery_time |-> data.delivery_time,
     order_status |-> data.order_status,
     notes |-> JsOr(data.notes, Str(<< >>))]

\* orders the form is opened on: nothing collected yet, or one can collected
\* on a date
StoredOrders ==
    {InsertedRow(1, [CompleteOrder EXCEPT !.collected_qty = Num(0)]),
     InsertedRow(1, [CompleteOrder EXCEPT !.collected_date = Str(<<"d", "T", "0">>)])}

\* fields the user edits and the texts typed into them
SubmitFields == {"can_qty", "collected_qty", "collected_date"}

SubmitTexts == {<< >>, <<"0">>, <<"9">>, <<"1", "0">>, <<"-", "1">>}

\* validate: the fields that get an error message
validate(fd, editing) ==
    {f \in {"customer_name", "customer_phone", "customer_address", "order_date",
            "delivery_date", "delivery_time", "order_status"} : ~Truthy(fd[f])}
      \cup (IF JsLe(fd.can_qty, Num(0)) THEN {"can_qty"} ELSE {})
      \cup (IF editing /\ (\/ JsLt(fd.collected_qty, Num(0))
                           \/ JsGt(fd.collected_qty, fd.can_qty))
            THEN {"collected_qty"} ELSE {})
      \cup (IF editing /\ JsGt(fd.collected_qty, Num(0)) /\ ~Truthy(fd.collected_date)
            THEN {"collected_date"} ELSE {})

\* payload of handleSubmit
SubmitPayload(fd) ==
    [fd EXCEPT !.notes = IF fd.notes = Str(<< >>) THEN Null ELSE fd.notes,
               !.collected_date = IF fd.collected_date = Str(<< >>) THEN Null
                                  ELSE fd.collected_date]

\* the form right after it is mounted and, in edit mode, the order is loaded
InitForm ==
    /\ \/ /\ isEditing = FALSE
          /\ formData = NewOrderForm
          /\ orders = {}
       \/ /\ isEditing = TRUE
          /\ \E o \in StoredOrders :
                /\ orders = {o}
                /\ formData = FetchedOrderForm(o)
    /\ order = [id |-> Num(1), customer_name |-> Str(<<"n">>), can_qty |-> Num(2),
                collected_qty |-> Null, delivery_amount |-> Null]
    /\ prices = <<Sheet(Num(60), Num(40), Num(300))>>
    /\ currentPrices = NoSheet
    /\ shown = [p \in Paths |-> NoCharge]
    /\ nEdits = 0
    /\ IdleForm
    /\ nextId = Cardinality(orders) + 1
    /\ writers = [i \in OrderIds |-> IF i < nextId THEN CompleteOrder ELSE Undef]
    /\ orderReqs = {}
    /\ lastResp = NoResp
    /\ nReqs = 0
    /\ IdleDb
    /\ IdleLedger
    /\ IdleBilling

\* handleChange on the fields of the form that is submitted
handleChangeForm == handleChangeOf(SubmitFields, SubmitTexts, MaxFormEdits)

\* handleSubmit up to its request: validate, then PUT /api/orders/:id or
\* POST /api/orders
handleSubmit ==
    /\ ~formLoading
    /\ nReqs < MaxReqs
    /\ errors' = validate(formData, isEditing)
    /\ IF errors' = {}
       THEN /\ formLoading' = TRUE
            /\ nReqs' = nReqs + 1
            /\ orderReqs' = orderReqs \cup
                  {Pending(nReqs', IF isEditing THEN "put" ELSE "post",
                           IF isEditing THEN 1 ELSE 0, SubmitPayload(formData),
                           "sent", FALSE)}
       ELSE UNCHANGED <<formLoading, nReqs, orderReqs>>
    /\ UNCHANGED <<order, formData, currentPrices, prices, shown, nEdits, isEditing,
                   generatingReceipt, receiptReqs>>
    /\ UNCHANGED <<orders, nextId, lastResp, writers>>
    /\ UNCHANGED <<dbVars, ledgerVars, billingVars>>

\* handleSubmit after the answer, or the failure, of its request: the result is
\* toasted and loading ends
submitDone ==
    \E r \in orderReqs :
        /\ r.pc = "sent"
        /\ orderReqs' = orderReqs \ {r}
        /\ formLoading' = FALSE
        /\ UNCHANGED <<order, formData, currentPrices, prices, shown, nEdits,
                       isEditing, errors, generatingReceipt, receiptReqs>>
        /\ UNCHANGED <<orders, nextId, lastResp, writers, nReqs>>
        /\ UNCHANGED <<dbVars, ledgerVars, billingVars>>

NextForm ==
    \/ handleChangeForm
    \/ handleSubmit
    \/ submitDone

SpecForm == InitForm /\ [][NextForm]_vars

\* C30: the form sends a create or update request only when validation
\* passes: can_qty > 0 always and, in edit mode, 0 <= collected_qty <= can_qty
\* and a collection date whenever collected_qty > 0, for every value the user
\* can type into the quantity fields; otherwise no request is sent
C30_RequestOnlyIfValid ==
    \A r \in orderReqs :
        LET can == ToNumber(r.body.can_qty)
            col == ToNumber(r.body.collected_qty)
        IN  /\ can.k = "num"
            /\ can.n > 0
            /\ r.kind = "put"
               => /\ col.k = "num"
                  /\ 0 <= col.n
                  /\ col.n <= can.n
                  /\ col.n > 0 => Truthy(r.body.collected_date)

(***************************************************************************)
(* Busy flags: every handler that sets one clears it in a finally block or *)
(* before an early return.  The receipt downloads are split at their       *)
(* awaits; the other handlers are the actions of the screens above.  Each  *)
(* screen is a route of its own and is followed from its mounted state.    *)
(***************************************************************************)
\* user actions followed on each screen
MaxBusy == 1

\* OrdersForm generateReceipt up to the rendering request: without an order
\* id it returns before the flag is set; without prices it throws inside the
\* try, so the flag set and the finally that clears it run in one tick
generateReceiptStart ==
    /\ ~generatingReceipt.form
    /\ IF ~isEditing
       THEN UNCHANGED <<generatingReceipt, receiptReqs, shown>>
       ELSE IF ~currentPrices.present
       THEN /\ shown' = [shown EXCEPT !["formDownload"] = NoCharge]
            /\ UNCHANGED <<generatingReceipt, receiptReqs>>
       ELSE /\ generatingReceipt' = [generatingReceipt EXCEPT !.form = TRUE]
            /\ receiptReqs' = receiptReqs \cup
                  {[screen |-> "form", pc |-> "pdf",
                    data |-> calculateReceiptData(formData, currentPrices) @@
                             [body |-> generateReceiptBody(formData, currentPrices,
                                                           order.id)]]}
            /\ UNCHANGED shown
    /\ UNCHANGED <<order, formData, currentPrices, prices, nEdits, isEditing>>
    /\ UNCHANGED <<errors, formLoading>>
    /\ UNCHANGED <<dbVars, ledgerVars, billingVars, orderVars>>

\* the rendering request is answered: the file is downloaded (ok) or the
\* error toasted, and the finally clears the flag
generateReceiptDone ==
    \E r \in receiptReqs, ok \in BOOLEAN :
        /\ r.screen = "form"
        /\ receiptReqs' = receiptReqs \ {r}
        /\ generatingReceipt' = [generatingReceipt EXCEPT !.form = FALSE]
        /\ shown' = [shown EXCEPT !["formDownload"] = IF ok THEN r.data ELSE NoCharge]
        /\ UNCHANGED <<order, formData, currentPrices, prices, nEdits, isEditing>>
        /\ UNCHANGED <<errors, formLoading>>
        /\ UNCHANGED <<dbVars, ledgerVars, billingVars, orderVars>>

\* Orders list generateOrderReceipt up to the price request: the button of
\* the row is disabled while its receipt is being generated
generateOrderReceiptStart ==
    /\ generatingReceipt.list # order.id
    /\ generatingReceipt' = [generatingReceipt EXCEPT !.list = order.id]
    /\ receiptReqs' = receiptReqs \cup
          {[screen |-> "list", pc |-> "prices", data |-> NoCharge]}
    /\ UNCHANGED <<order, formData, currentPrices, prices, nEdits, isEditing, shown>>
    /\ UNCHANGED <<errors, formLoading>>
    /\ UNCHANGED <<dbVars, ledgerVars, billingVars, orderVars>>

\* the prices arrived (ok) or not: without a current price the handler throws
\* and the finally clears the flag, with one the rendering request is sent
generateOrderReceiptPriced ==
    \E r \in receiptReqs, ok \in BOOLEAN :
        /\ r.screen = "list"
        /\ r.pc = "prices"
        /\ IF ok /\ FirstPrice(prices).present
           THEN /\ receiptReqs' = (receiptReqs \ {r}) \cup
                      {[screen |-> "list", pc |-> "pdf",
                        data |-> generateOrderReceiptCharge(order, FirstPrice(prices)) @@
                                 [body |-> generateOrderReceiptBody(order,
                                                                    FirstPrice(prices))]]}
                /\ UNCHANGED <<generatingReceipt, shown>>
           ELSE /\ receiptReqs' = receiptReqs \ {r}
                /\ generatingReceipt' = [generatingReceipt EXCEPT !.list = Null]
                /\ shown' = [shown EXCEPT !["listDownload"] = NoCharge]
        /\ UNCHANGED <<order, formData, currentPrices, prices, nEdits, isEditing>>
        /\ UNCHANGED <<errors, formLoading>>
        /\ UNCHANGED <<dbVars, ledgerVars, billingVars, orderVars>>

\* the rendering request is answered: the file is downloaded (ok) or the
\* error toasted, and the finally clears the flag
generateOrderReceiptDone ==
    \E r \in receiptReqs, ok \in BOOLEAN :
        /\ r.screen = "list"
        /\ r.pc = "pdf"
        /\ receiptReqs' = receiptReqs \ {r}
        /\ generatingReceipt' = [generatingReceipt EXCEPT !.list = Null]
        /\ shown' = [shown EXCEPT !["listDownload"] = IF ok THEN r.data ELSE NoCharge]
        /\ UNCHANGED <<order, formData, currentPrices, prices, nEdits, isEditing>>
        /\ UNCHANGED <<errors, formLoading>>
        /\ UNCHANGED <<dbVars, ledgerVars, billingVars, orderVars>>

\* the order form opened on a stored order or on a new one, with the prices
\* fetched or not
InitOrderScreens ==
    /\ order = [id |-> Num(1), customer_name |-> Str(<<"n">>), can_qty |-> Num(2),
                collected_qty |-> Null, delivery_amount |-> Null]
    /\ prices \in {<< >>, <<Sheet(Num(60), Num(40), Num(300))>>}
    /\ isEditing \in BOOLEAN
    /\ formData = DefaultFormData
    /\ currentPrices \in {NoSheet, FirstPrice(prices)}
    /\ shown = [p \in Paths |-> NoCharge]
    /\ nEdits = 0
    /\ IdleForm
    /\ IdleDb
    /\ IdleLedger
    /\ IdleBilling
    /\ IdleOrders

InitBusy ==
    \/ InitLedger
    \/ InitBilling
    \/ InitGenerate
    \/ InitOrderScreens

\* the orders list is the open route: the other screens are not mounted
OrdersListOpen == IdleLedger /\ IdleBilling

\* the bills on the screen carry the customer names the filenames are made of
NamedBills == \A b \in bills : "name" \in DOMAIN b

NextBusy ==
    \/ nActs < MaxBusy /\ DateBlur
    \/ FetchInitialDataDone
    \/ nActs < MaxBusy /\ handleUpdateChange
    \/ nActs < MaxBusy /\ SaveStart
    \/ SavePosted
    \/ SaveRefreshed
    \/ Reload
    \/ nBillActs < MaxBusy /\ setSelectedMonth
    \/ fetchMonthlyBills
    \/ nBillActs < MaxBusy /\ StatusStart
    \/ StatusPosted
    \/ nBillActs < MaxBusy /\ SaveAllStart
    \/ SaveAllPosted
    \/ nBillActs < MaxBusy /\ NamedBills /\ handleGenerateAllBills
    \/ generatePricesFetched
    \/ generateLedgerFetched
    \/ generatePdfDone
    \/ generateAllSettled
    \/ generateZipped
    \/ generateReceiptStart
    \/ generateReceiptDone
    \/ OrdersListOpen /\ generateOrderReceiptStart
    \/ generateOrderReceiptPriced
    \/ generateOrderReceiptDone

\* every request is answered, with a success or a failure, and every step a
\* handler takes after an answer is taken
RequestsComplete ==
    /\ WF_vars(FetchInitialDataDone)
    /\ WF_vars(SavePosted)
    /\ WF_vars(SaveRefreshed)
    /\ WF_vars(StatusPosted)
    /\ WF_vars(SaveAllPosted)
    /\ WF_vars(generatePricesFetched)
    /\ WF_vars(generateLedgerFetched)
    /\ WF_vars(generatePdfDone)
    /\ WF_vars(generateAllSettled)
    /\ WF_vars(generateZipped)
    /\ WF_vars(generateReceiptDone)
    /\ WF_vars(generateOrderReceiptPriced)
    /\ WF_vars(generateOrderReceiptDone)

SpecBusy == InitBusy /\ [][NextBusy]_vars /\ RequestsComplete

\* C29: every busy flag set by a user action (generatingReceipt,
\* isGeneratingBills, isSavingBills, updatingStatusId, savingCustomerId,
\* loading) is eventually cleared once the action's requests complete, on
\* every path: success, server error, thrown exception and early return
C29_BusyFlagsCleared ==
    /\ generatingReceipt.form ~> ~generatingReceipt.form
    /\ (generatingReceipt.list # Null) ~> (generatingReceipt.list = Null)
    /\ isGeneratingBills ~> ~isGeneratingBills
    /\ isSavingBills ~> ~isSavingBills
    /\ (updatingStatusId # NoId) ~> (updatingStatusId = NoId)
    /\ (savingCustomerId # NoId) ~> (savingCustomerId = NoId)
    /\ (loading /\ loads # {}) ~> ~loading

\* a batch of bills is being zipped with its flag set
C29_Witness ==
    /\ isGeneratingBills
    /\ generation.pc = "zip"

====
